---- MODULE Spec2Model ----
(***************************************************************************)
(* Model of the local encrypted vault engine: VaultService (the vault      *)
(* state machine, its CRUD operations and its security audit), SPCCrypto   *)
(* (encrypt, decrypt, createVerifier, checkVerifier, evaluateStrength) and *)
(* the notifications the vault publishes on SPCBus.                        *)
(*                                                                         *)
(* JavaScript values are represented as follows.                           *)
(*  - A master password is a TLA+ string; Undefined stands for an absent   *)
(*    (undefined / null) argument.                                         *)
(*  - A text field of an entry is a sequence of one-character strings, so  *)
(*    that length, prefix, substring and character class are computable;   *)
(*    Undef stands for an absent field of the argument of save.            *)
(*  - An identifier is a TLA+ string, "" being the absent / empty one      *)
(*    (both are falsy and the code treats them alike).                     *)
(*  - A value of localStorage is a record; Absent is what getItem returns  *)
(*    for a key that was never written (null).                             *)
(***************************************************************************)
EXTENDS Integers, Sequences, FiniteSets, TLC

\* ------------------------------------------------------------------ bounds
\* most entries the vault holds
MaxEntries == 3
\* number of times the clock advances
MaxTicks == 1
\* most save calls that get past the lock check in one run
MaxSaves == 2
\* most injected failures (encryption or localStorage write) in one run
MaxFaults == 1
\* most entries of a vault that is audited
MaxAudited == 4
\* bits of a byte that are flipped: 1..MaxBit
MaxBit == 2
\* outcomes of crypto.getRandomValues: 1..MaxSeed
MaxSeed == 2
\* encrypt calls followed in one run
MaxEncryptions == 4
\* longest byte string compared
MaxCompared == 3
\* width in bits of the random words generatePassword draws (32 in the code)
MaxWordBits == 7
\* subscribers of one event, and events published in one run
MaxListeners == 3
MaxEmits == 2
\* entry objects allocated in one run
MaxObjects == 4
\* calls of the vault made in one run in which calls overlap
MaxCalls == 3

\* --------------------------------------------------------------- constants
LS_VAULT == "trisync_vault"
LS_VERIFIER == "spc_vault_verifier"
\* a minimum length one too small
MIN_MASTER_LEN_Short == 4 - 1

\* minimum length of a master password accepted by create
MIN_MASTER_LEN == 4
\* delay of the clipboard-clear timer; times are in seconds (30000 ms)
CLIP_CLEAR == 30
\* Date.now() when the page is loaded, and the step of the clock
StartTime == 100 * 24 * 60 * 60
TickLen == CLIP_CLEAR

Undefined == "<undefined>"
Undef == <<"<undefined>">>
Absent == [kind |-> "absent"]

\* master passwords the callers try
MasterPasswords == {Undefined, "", "abc", "abcd", "wxyz"}

\* the salts and nonces crypto.getRandomValues returns in these
\* specifications; no operation of the vault depends on their values
Salts == {1}
IVs == {2}

\* identifiers: chosen by the caller, or returned by crypto.randomUUID
UserIds == {"u1"}
GenIds == {"g1", "g2"}
Ids == UserIds \cup GenIds

Str_bank == <<"b", "a", "n", "k">>
Str_pass == <<"p", "@", "s", "s">>
Str_x == <<"x">>
Str_W == <<"W">>

\* ------------------------------------------------------------------- state
VARIABLES
  _masterKey,     \* master password held in memory, or Undefined (null)
  _entries,       \* decrypted entries, in order
  _locked,        \* the locked flag
  _clipTimer,     \* the timer secureCopy set last: the time it is due, 0 for null
  timers,         \* the timers of the page that are pending, by the time due
  clipboard,      \* text on the system clipboard
  localStorage,   \* LS_VAULT and LS_VERIFIER -> stored value or Absent
  now,            \* the value Date.now() returns
  faults,         \* failures injected so far
  saves,          \* save calls that got past the lock check so far
  ret,            \* outcome of the last call: operation, status, value
  trace,          \* effects of the last call, in order
  drawn,          \* values crypto.getRandomValues has returned so far
  encryptions,    \* blobs SPCCrypto.encrypt has returned, in order
  _listeners,     \* SPCBus: event -> its subscribers, in order of subscription
  _history,       \* SPCBus: the events published, oldest first
  lockscreen,     \* SPC (app.js): the lock screen is visible
  lastActivity,   \* SPC (app.js): Date.now() at the last user activity
  addrs,          \* the objects that are the elements of _entries, in order
  allocated,      \* entry objects allocated so far; an object is named by a number
  held,           \* the objects callers and subscribers hold a reference to
  calls,          \* the asynchronous calls that wait for SPCCrypto to finish
  started,        \* calls made so far; a call is numbered by its place among them
  lockedAt        \* the number of calls that had been made when lock() ran last

\* the random source and the record of the encryptions
rngVars == <<drawn, encryptions>>

\* the state of SPCBus
busVars == <<_listeners, _history>>

\* the state of the page around the vault
appVars == <<lockscreen, lastActivity>>

\* the entry objects of the JavaScript heap and who refers to them
heapVars == <<addrs, allocated, held>>

\* the calls in flight
asyncVars == <<calls, started, lockedAt>>

\* the state outside VaultService, SPCCrypto and SPCBus
rest == <<appVars, heapVars, asyncVars>>

\* what the operations of the vault leave alone
others == <<rngVars, busVars, rest>>

vars == <<_masterKey, _entries, _locked, _clipTimer, timers, clipboard,
          localStorage, now, faults, saves, ret, trace, others>>

session == <<_masterKey, _entries, _locked>>

\* ------------------------------------------------------------ JS helpers
\* JavaScript truthiness of a master password or an identifier
Truthy(s) == s # Undefined /\ s # ""

\* JavaScript truthiness of a text field
TruthyText(t) == t # Undef /\ t # <<>>

\* t || d
OrText(t, d) == IF TruthyText(t) THEN t ELSE d

\* JSON.stringify of the entry array: the text of an array with these items.
\* Entries hold only strings and numbers, which JSON text represents
\* exactly; the text '[]' is JSON_stringify(<<>>).
JSON_stringify(items) == [text |-> "json", items |-> items]

\* a text that is not JSON
GarbageText == [text |-> "garbage", items |-> <<>>]

\* JSON.parse: the items of a JSON array text, a SyntaxError otherwise
JSON_parse(text) ==
  IF text.text = "json"
    THEN [ok |-> TRUE, value |-> text.items, error |-> ""]
    ELSE [ok |-> FALSE, value |-> <<>>, error |-> "SyntaxError"]

\* --------------------------------------------------------------- SPCCrypto
\* SHA-256, modelled as an injective function
Digest(x) == <<"sha256", x>>

\* PBKDF2: the key is a function of the password and the salt only
deriveKey(password, salt) == [password |-> password, salt |-> salt]

\* AES-GCM sealing: ciphertext and tag open only under the same key and nonce
Seal(key, iv, plaintext) == [key |-> key, iv |-> iv, plaintext |-> plaintext]

uint8ToBase64(bytes) == [kind |-> "base64", bytes |-> bytes]

base64ToUint8(b64) == b64.bytes

\* encrypt that draws a salt and seals under a nonce it does not draw
encrypt_FixedNonce(plaintext, password, salt, iv, failed) ==
  IF ~Truthy(password)
    THEN [ok |-> FALSE, value |-> Absent, error |-> "InvalidInput"]
  ELSE IF failed
    THEN [ok |-> FALSE, value |-> Absent, error |-> "EncryptFailed"]
  ELSE LET key == deriveKey(password, salt)
           ciphertext == Seal(key, 0, plaintext)
           packed == [salt |-> salt, iv |-> 0, ciphertext |-> ciphertext]
       IN [ok |-> TRUE, value |-> uint8ToBase64(packed), error |-> ""]

\* encrypt(plaintext, password) with the salt and nonce getRandomValues
\* returned; failed is TRUE when a Web Crypto call rejects
encrypt(plaintext, password, salt, iv, failed) ==
  IF ~Truthy(password)
    THEN [ok |-> FALSE, value |-> Absent, error |-> "InvalidInput"]
  ELSE IF failed
    THEN [ok |-> FALSE, value |-> Absent, error |-> "EncryptFailed"]
  ELSE LET key == deriveKey(password, salt)
           ciphertext == Seal(key, iv, plaintext)
           packed == [salt |-> salt, iv |-> iv, ciphertext |-> ciphertext]
       IN [ok |-> TRUE, value |-> uint8ToBase64(packed), error |-> ""]

\* decrypt that returns the plaintext without checking the key
decrypt_NoAuth(cipherBundle, password) ==
  IF cipherBundle = Absent \/ ~Truthy(password)
    THEN [ok |-> FALSE, value |-> GarbageText, error |-> "InvalidInput"]
    ELSE [ok |-> TRUE, value |-> base64ToUint8(cipherBundle).ciphertext.plaintext,
          error |-> ""]

\* decrypt that reads the nonce at the offset of the salt
decrypt_WrongOffset(cipherBundle, password) ==
  IF cipherBundle = Absent \/ ~Truthy(password)
    THEN [ok |-> FALSE, value |-> GarbageText, error |-> "InvalidInput"]
  ELSE LET packed == base64ToUint8(cipherBundle)
           salt == packed.salt
           iv == packed.salt
           ciphertext == packed.ciphertext
           key == deriveKey(password, salt)
       IN IF ciphertext.key = key /\ ciphertext.iv = iv
            THEN [ok |-> TRUE, value |-> ciphertext.plaintext, error |-> ""]
            ELSE [ok |-> FALSE, value |-> GarbageText,
                  error |-> "AuthenticationFailed"]

\* decrypt(cipherBundle, password)
decrypt(cipherBundle, password) ==
  IF cipherBundle = Absent \/ ~Truthy(password)
    THEN [ok |-> FALSE, value |-> GarbageText, error |-> "InvalidInput"]
  ELSE LET packed == base64ToUint8(cipherBundle)
           salt == packed.salt
           iv == packed.iv
           ciphertext == packed.ciphertext
           key == deriveKey(password, salt)
       IN IF ciphertext.key = key /\ ciphertext.iv = iv
            THEN [ok |-> TRUE, value |-> ciphertext.plaintext, error |-> ""]
            ELSE [ok |-> FALSE, value |-> GarbageText,
                  error |-> "AuthenticationFailed"]

\* a verifier hashed over a zeroed salt buffer while the drawn salt is stored
createVerifier_ZeroSalt(password, salt) ==
  uint8ToBase64([salt |-> salt, hash |-> Digest(<<0, Digest(password)>>)])

\* createVerifier(password) with the 32-byte salt getRandomValues returned
createVerifier(password, salt) ==
  LET pwdHash == Digest(password)
      verifyHash == Digest(<<salt, pwdHash>>)
  IN uint8ToBase64([salt |-> salt, hash |-> verifyHash])

\* a comparison that accepts any two byte strings
timingSafeEqual_Any(a, b) == TRUE

timingSafeEqual(a, b) == a = b

\* checkVerifier(password, verifier)
checkVerifier(password, verifier) ==
  LET data == base64ToUint8(verifier)
      salt == data.salt
      storedHash == data.hash
      computedHash == Digest(<<salt, Digest(password)>>)
  IN timingSafeEqual(storedHash, computedHash)


\* ------------------------------------------------- effects and outcomes
NoData == [tag |-> "none"]

\* one effect of a call: a localStorage access, a decryption, a clipboard
\* write or a notification published on SPCBus
Effect(kind, name, data) == [kind |-> kind, name |-> name, data |-> data]
GetItem(key) == Effect("getItem", key, NoData)
SetItem(key) == Effect("setItem", key, NoData)
Decrypt(key) == Effect("decrypt", key, NoData)
Emit(event, data) == Effect("emit", event, data)

\* the notifications among the effects of the last call
Emitted(tr) == SelectSeq(tr, LAMBDA e : e.kind = "emit")

\* these effects contain this one
DidIn(tr, effect) == \E i \in 1..Len(tr) : tr[i] = effect

\* outcome of a call: status is "ok" or the kind of the error thrown
Outcome(op, arg, status, value) ==
  [op |-> op, arg |-> arg, status |-> status, value |-> value]

PwdArg(p) == [tag |-> "password", password |-> p]
IdArg(id) == [tag |-> "id", id |-> id]
EntriesValue(es) == [tag |-> "entries", entries |-> es]
EntryValue(e) == [tag |-> "entry", entry |-> e]

\* ------------------------------------------------------------------ SPCBus
\* the events of the model
BusEvents == {"VAULT_LOCKED", "ERROR"}

MAX_HISTORY == 100

\* a subscriber: the function subscribed, or the wrapper once makes of it.
\* "quiet" returns, "thrower" throws, "remover" unsubscribes "quiet" from
\* the event it is called with and returns
Subscriber(fn, wrapped) == [fn |-> fn, once |-> wrapped]
Quiet == Subscriber("quiet", FALSE)
Functions == {"quiet", "thrower", "remover"}

\* the place of an entry deleted from a Set while the Set is iterated
Hole == Subscriber("", FALSE)

\* position of a subscriber in a Set, 0 when it is not in it
positionIn(set, subscriber) ==
  IF \E i \in 1..Len(set) : set[i] = subscriber
    THEN CHOOSE i \in 1..Len(set) : set[i] = subscriber
    ELSE 0

\* Set.prototype.add: a member stays where it is
add(set, subscriber) ==
  IF positionIn(set, subscriber) # 0 THEN set ELSE Append(set, subscriber)

\* the effects of a call of emit: a subscriber called, a subscription
\* removed by a subscriber, an exception caught and logged
Called(subscriber, event) ==
  [kind |-> "call", name |-> event, data |-> subscriber]
Removed(subscriber, event) ==
  [kind |-> "off", name |-> event, data |-> subscriber]
Caught(subscriber, event) ==
  [kind |-> "console.error", name |-> event, data |-> subscriber]

\* the subscriptions a subscriber removes when it is called: the wrapper
\* of once removes itself before it calls the function
removedBy(subscriber) ==
  (IF subscriber.once THEN <<subscriber>> ELSE <<>>)
    \o (IF subscriber.fn = "remover" THEN <<Quiet>> ELSE <<>>)

\* the loop of emit over the Set of the event, from entry i on: entries
\* deleted before their turn are not visited
RECURSIVE dispatch(_, _, _, _)
dispatch(event, set, i, effects) ==
  IF i > Len(set) THEN [set |-> set, effects |-> effects]
  ELSE IF set[i] = Hole THEN dispatch(event, set, i + 1, effects)
  ELSE LET callback == set[i]
           offs == removedBy(callback)
           gone == {offs[k] : k \in 1..Len(offs)}
           left == [k \in 1..Len(set) |-> IF set[k] \in gone THEN Hole ELSE set[k]]
           done == <<Called(callback, event)>>
                     \o [k \in 1..Len(offs) |-> Removed(offs[k], event)]
                     \o (IF callback.fn = "thrower"
                           THEN <<Caught(callback, event)>> ELSE <<>>)
       IN dispatch(event, left, i + 1, effects \o done)

\* a loop that ends at the first subscriber that throws
emitLoop_StopsAtThrow(event, set) ==
  LET throwers == {i \in 1..Len(set) : set[i].fn = "thrower"}
      last == IF throwers = {} THEN Len(set)
              ELSE CHOOSE i \in throwers : \A j \in throwers : i <= j
      r == dispatch(event, SubSeq(set, 1, last), 1, <<>>)
  IN [set |-> r.set \o SubSeq(set, last + 1, Len(set)), effects |-> r.effects]

\* for (const callback of set) { try { callback(data, event) } catch ... }
emitLoop(event, set) == dispatch(event, set, 1, <<>>)

\* typeof callback === 'function'
isFunction(callback) == callback.fn # Undefined

\* on(event, callback)
on(event, callback) ==
  /\ isFunction(callback) => Len(add(_listeners[event], callback)) <= MaxListeners
  /\ _listeners' = IF ~isFunction(callback) THEN _listeners
                   ELSE [_listeners EXCEPT ![event] = add(@, callback)]
  /\ ret' = Outcome("on", [tag |-> "on", event |-> event, callback |-> callback],
                    IF ~isFunction(callback) THEN "TypeError" ELSE "ok", NoData)
  /\ trace' = <<>>
  /\ UNCHANGED _history

\* once(event, callback): the wrapper is subscribed
once(event, callback) ==
  LET wrapper == Subscriber(callback.fn, TRUE) IN
  /\ isFunction(callback) =>
       /\ positionIn(_listeners[event], wrapper) = 0
       /\ Len(_listeners[event]) < MaxListeners
  /\ _listeners' = IF ~isFunction(callback) THEN _listeners
                   ELSE [_listeners EXCEPT ![event] = add(@, wrapper)]
  /\ ret' = Outcome("once", [tag |-> "once", event |-> event, callback |-> callback],
                    IF ~isFunction(callback) THEN "TypeError" ELSE "ok", NoData)
  /\ trace' = <<>>
  /\ UNCHANGED _history

\* off(event, callback), also the function on and once return
off(event, callback) ==
  /\ _listeners' = [_listeners EXCEPT ![event] = SelectSeq(@, LAMBDA c : c # callback)]
  /\ ret' = Outcome("off", [tag |-> "off", event |-> event, callback |-> callback],
                    "ok", NoData)
  /\ trace' = <<>>
  /\ UNCHANGED _history

\* emit(event): the event is recorded, then the subscribers of the event
\* are called one after the other
emit(event) ==
  LET r == emitLoop(event, _listeners[event])
      recorded == Append(_history, [event |-> event, timestamp |-> now])
  IN /\ Len(_history) < MaxEmits
     /\ _history' = IF Len(recorded) > MAX_HISTORY THEN Tail(recorded) ELSE recorded
     /\ _listeners' = [_listeners EXCEPT ![event] = SelectSeq(r.set, LAMBDA c : c # Hole)]
     /\ ret' = Outcome("emit", [tag |-> "emit", event |-> event], "ok", NoData)
     /\ trace' = r.effects

\* ------------------------------------------------------------ VaultService
isCreated == localStorage[LS_VERIFIER] # Absent \/ localStorage[LS_VAULT] # Absent

\* the three states of the vault
Uninitialized == ~isCreated /\ _locked
Locked == _locked
Unlocked == ~_locked

\* assertUnlocked() that never throws
assertUnlocked_Never == TRUE

\* assertUnlocked(): TRUE when it returns, FALSE when it throws
assertUnlocked == ~_locked

\* create(masterPassword); vsalt, salt and iv are the random values drawn,
\* fail names the step that throws, if any
\* (a localStorage.setItem that exceeds the quota, a Web Crypto rejection)
create(masterPassword, vsalt, salt, iv, fail) ==
  LET arg == PwdArg(masterPassword) IN
  IF ~Truthy(masterPassword) \/ Len(masterPassword) < MIN_MASTER_LEN
  THEN /\ fail = "none"
       /\ ret' = Outcome("create", arg, "WeakMasterPassword", NoData)
       /\ trace' = <<>>
       /\ UNCHANGED <<session, _clipTimer, timers, clipboard, localStorage, now, faults, saves>>
  ELSE
  LET verifier == createVerifier(masterPassword, vsalt)
      encrypted == encrypt(JSON_stringify(<<>>), masterPassword, salt, iv,
                           fail = "encrypt")
  IN
  /\ fail \in {"none", "setVerifier", "encrypt", "setVault"}
  /\ fail # "none" => faults < MaxFaults
  /\ faults' = IF fail = "none" THEN faults ELSE faults + 1
  /\ UNCHANGED <<_clipTimer, timers, clipboard, now, saves>>
  /\ CASE fail = "setVerifier" ->
            /\ ret' = Outcome("create", arg, "PersistenceError", NoData)
            /\ trace' = <<>>
            /\ UNCHANGED <<session, localStorage>>
       [] fail = "encrypt" ->
            /\ localStorage' = [localStorage EXCEPT ![LS_VERIFIER] = verifier]
            /\ ret' = Outcome("create", arg, encrypted.error, NoData)
            /\ trace' = <<SetItem(LS_VERIFIER)>>
            /\ UNCHANGED session
       [] fail = "setVault" ->
            /\ localStorage' = [localStorage EXCEPT ![LS_VERIFIER] = verifier]
            /\ ret' = Outcome("create", arg, "PersistenceError", NoData)
            /\ trace' = <<SetItem(LS_VERIFIER)>>
            /\ UNCHANGED session
       [] OTHER ->
            /\ localStorage' = [localStorage EXCEPT ![LS_VERIFIER] = verifier,
                                                    ![LS_VAULT] = encrypted.value]
            /\ _masterKey' = masterPassword
            /\ _entries' = <<>>
            /\ _locked' = FALSE
            /\ ret' = Outcome("create", arg, "ok", NoData)
            /\ trace' = <<SetItem(LS_VERIFIER), SetItem(LS_VAULT),
                          Emit("VAULT_UNLOCKED", NoData)>>

\* unlock(masterPassword)
unlock(masterPassword) ==
  LET arg == PwdArg(masterPassword)
      verifier == localStorage[LS_VERIFIER]
      encrypted == localStorage[LS_VAULT]
      decrypted == decrypt(encrypted, masterPassword)
      parsed == JSON_parse(decrypted.value)
  IN
  /\ UNCHANGED <<_clipTimer, timers, clipboard, localStorage, now, faults, saves>>
  /\ IF ~Truthy(masterPassword)
     THEN /\ ret' = Outcome("unlock", arg, "InvalidInput", NoData)
          /\ trace' = <<>>
          /\ UNCHANGED session
     ELSE IF verifier # Absent /\ ~checkVerifier(masterPassword, verifier)
     THEN /\ ret' = Outcome("unlock", arg, "WrongPassword", NoData)
          /\ trace' = <<GetItem(LS_VERIFIER)>>
          /\ UNCHANGED session
     ELSE IF encrypted = Absent
     THEN /\ _masterKey' = masterPassword
          /\ _entries' = <<>>
          /\ _locked' = FALSE
          /\ ret' = Outcome("unlock", arg, "ok", NoData)
          /\ trace' = <<GetItem(LS_VERIFIER), GetItem(LS_VAULT),
                        Emit("VAULT_UNLOCKED", NoData)>>
     ELSE IF decrypted.ok /\ parsed.ok
     THEN /\ _entries' = parsed.value
          /\ _masterKey' = masterPassword
          /\ _locked' = FALSE
          /\ ret' = Outcome("unlock", arg, "ok", NoData)
          /\ trace' = <<GetItem(LS_VERIFIER), GetItem(LS_VAULT),
                        Decrypt(LS_VAULT),
                        Emit("VAULT_UNLOCKED",
                             [tag |-> "count", count |-> Len(parsed.value)])>>
     ELSE /\ ret' = Outcome("unlock", arg, "WrongPasswordOrCorruptData", NoData)
          /\ trace' = <<GetItem(LS_VERIFIER), GetItem(LS_VAULT),
                        Decrypt(LS_VAULT)>>
          /\ UNCHANGED session

\* navigator.clipboard.writeText(text).catch(() => {}): the write may be
\* rejected, and the rejection is swallowed
writeText(text, written) == clipboard' = IF written THEN text ELSE clipboard

\* clearClipboard() that leaves the timer pending
clearClipboard_KeepsTimer(written) ==
  /\ _clipTimer' = _clipTimer
  /\ timers' = timers
  /\ writeText(<<>>, written)

\* clearTimeout(id): the timer is no longer pending
clearTimeout(id) == timers \ {id}

\* clearClipboard()
clearClipboard(written) ==
  /\ _clipTimer' = 0
  /\ timers' = IF _clipTimer # 0 THEN clearTimeout(_clipTimer) ELSE timers
  /\ writeText(<<>>, written)

\* lock() that keeps the master password in memory
lock_KeepsKey(written) ==
  /\ _masterKey' = _masterKey
  /\ _entries' = <<>>
  /\ _locked' = TRUE
  /\ clearClipboard(written)
  /\ ret' = Outcome("lock", NoData, "ok", NoData)
  /\ trace' = (IF _clipTimer # 0 THEN <<Effect("clearTimeout", "", NoData)>>
                                  ELSE <<>>)
               \o <<Effect("writeText", "", NoData),
                    Emit("VAULT_LOCKED", NoData)>>
  /\ UNCHANGED <<localStorage, now, faults, saves>>

\* lock() that flips the flag instead of setting it
lock_Toggle(written) ==
  /\ _masterKey' = Undefined
  /\ _entries' = <<>>
  /\ _locked' = ~_locked
  /\ clearClipboard(written)
  /\ ret' = Outcome("lock", NoData, "ok", NoData)
  /\ trace' = (IF _clipTimer # 0 THEN <<Effect("clearTimeout", "", NoData)>>
                                  ELSE <<>>)
               \o <<Effect("writeText", "", NoData),
                    Emit("VAULT_LOCKED", NoData)>>
  /\ UNCHANGED <<localStorage, now, faults, saves>>

\* lock()
lock(written) ==
  /\ _masterKey' = Undefined
  /\ _entries' = <<>>
  /\ _locked' = TRUE
  /\ clearClipboard(written)
  /\ ret' = Outcome("lock", NoData, "ok", NoData)
  /\ trace' = (IF _clipTimer # 0 THEN <<Effect("clearTimeout", "", NoData)>>
                                  ELSE <<>>)
               \o <<Effect("writeText", "", NoData),
                    Emit("VAULT_LOCKED", NoData)>>
  /\ UNCHANGED <<localStorage, now, faults, saves>>

\* secureCopy that sets a timer without clearing the one before
secureCopy_KeepsOldTimer(text, written) ==
  /\ writeText(text, written)
  /\ _clipTimer' = now + CLIP_CLEAR
  /\ timers' = timers \cup {now + CLIP_CLEAR}
  /\ ret' = Outcome("secureCopy", NoData, "ok", NoData)
  /\ trace' = <<Effect("writeText", "", NoData), Effect("setTimeout", "", NoData)>>
  /\ UNCHANGED <<session, localStorage, now, faults, saves>>

\* secureCopy(text): a timer is named by the time it is due; _clipTimer
\* holds the timer set last, 0 when it holds null
secureCopy(text, written) ==
  /\ writeText(text, written)
  /\ _clipTimer' = now + CLIP_CLEAR
  /\ timers' = (IF _clipTimer # 0 THEN clearTimeout(_clipTimer) ELSE timers)
                 \cup {now + CLIP_CLEAR}
  /\ ret' = Outcome("secureCopy", NoData, "ok", NoData)
  /\ trace' = <<Effect("writeText", "", NoData)>>
               \o (IF _clipTimer # 0 THEN <<Effect("clearTimeout", "", NoData)>>
                                     ELSE <<>>)
               \o <<Effect("setTimeout", "", NoData)>>
  /\ UNCHANGED <<session, localStorage, now, faults, saves>>

\* the callback of a timer secureCopy set, run when the timer is due
clipTimerFires(written) ==
  /\ \E due \in timers :
       /\ now >= due
       /\ timers' = timers \ {due}
  /\ writeText(<<>>, written)
  /\ _clipTimer' = 0
  /\ ret' = Outcome("clipTimer", NoData, "ok", NoData)
  /\ trace' = <<Effect("writeText", "", NoData)>>
  /\ UNCHANGED <<session, localStorage, now, faults, saves>>

\* time passes
Tick ==
  /\ now < StartTime + MaxTicks * TickLen
  /\ now' = now + TickLen
  /\ UNCHANGED <<session, _clipTimer, timers, clipboard, localStorage, faults, saves, ret, trace>>
  /\ UNCHANGED others


\* --------------------------------------------------------- SPC (app.js)
\* minutes without activity after which the page locks itself
autoLockMin == 5

\* the password of the lock screen when none is configured
LOCK_PASSWORD == "123456"

\* what an operation of the page leaves alone: the vault and its storage
appUnchanged ==
  UNCHANGED <<session, _clipTimer, timers, clipboard, localStorage, now,
              faults, saves>>

\* resetActivity(), the listener of mousemove, keydown, click, scroll and
\* touchstart
resetActivity ==
  /\ lastActivity' = now
  /\ lockscreen' = lockscreen
  /\ ret' = Outcome("resetActivity", NoData, "ok", NoData)
  /\ trace' = <<>>
  /\ appUnchanged

\* lock() of the page, called by the lock button, by Ctrl+L and by the
\* inactivity timer; more are the notifications published after it
SPC_lock(op, more) ==
  /\ lockscreen' = TRUE
  /\ lastActivity' = lastActivity
  /\ ret' = Outcome(op, NoData, "ok", NoData)
  /\ trace' = <<Emit("VAULT_LOCKED", NoData)>> \o more
  /\ appUnchanged

\* the callback of the interval initAutoLock sets, run every 5 seconds
autoLockCheck ==
  LET elapsed == now - lastActivity IN
  IF autoLockMin > 0 /\ elapsed >= autoLockMin * 60
    THEN SPC_lock("autoLock", <<Emit("AUTOLOCK_TRIGGERED", NoData)>>)
    ELSE /\ UNCHANGED appVars
         /\ ret' = Outcome("autoLock", NoData, "idle", NoData)
         /\ trace' = <<>>
         /\ appUnchanged

\* unlock() of the page with the password typed into the lock screen
SPC_unlock(pwd) ==
  /\ lockscreen' = IF pwd = LOCK_PASSWORD THEN FALSE ELSE lockscreen
  /\ lastActivity' = IF pwd = LOCK_PASSWORD THEN now ELSE lastActivity
  /\ ret' = Outcome("SPC.unlock", PwdArg(pwd),
                    IF pwd = LOCK_PASSWORD THEN "ok" ELSE "WrongPassword", NoData)
  /\ trace' = IF pwd = LOCK_PASSWORD THEN <<Emit("VAULT_UNLOCKED", NoData)>>
                                     ELSE <<>>
  /\ appUnchanged

\* the user stays away for the time after which the page locks itself
Idle ==
  /\ now < StartTime + MaxTicks * autoLockMin * 60
  /\ now' = now + autoLockMin * 60
  /\ UNCHANGED <<session, _clipTimer, timers, clipboard, localStorage, faults,
                 saves, ret, trace>>
  /\ UNCHANGED others

\* ------------------------------------------------------------------ texts
\* UTF-16 code unit of the characters the model uses
CodeUnit(c) ==
  CASE c = "@" -> 64 [] c = "B" -> 66 [] c = "W" -> 87
    [] c = "a" -> 97 [] c = "b" -> 98 [] c = "k" -> 107 [] c = "n" -> 110
    [] c = "p" -> 112 [] c = "s" -> 115 [] c = "w" -> 119 [] c = "x" -> 120

\* String.prototype.toLowerCase
LowerLetters ==
  <<"a", "b", "c", "d", "e", "f", "g", "h", "i", "j", "k", "l", "m",
    "n", "o", "p", "q", "r", "s", "t", "u", "v", "w", "x", "y", "z">>
UpperLetters ==
  <<"A", "B", "C", "D", "E", "F", "G", "H", "I", "J", "K", "L", "M",
    "N", "O", "P", "Q", "R", "S", "T", "U", "V", "W", "X", "Y", "Z">>
LowerChar(c) ==
  IF \E i \in 1..26 : UpperLetters[i] = c
    THEN LowerLetters[CHOOSE i \in 1..26 : UpperLetters[i] = c]
    ELSE c
toLowerCase(t) == [i \in 1..Len(t) |-> LowerChar(t[i])]

\* String.prototype.includes
includes(t, q) ==
  \E i \in 0..(Len(t) - Len(q)) : \A j \in 1..Len(q) : t[i + j] = q[j]

\* a < b in the order Array.prototype.sort uses for strings
TextLess(a, b) ==
  \/ /\ Len(a) < Len(b)
     /\ \A i \in 1..Len(a) : a[i] = b[i]
  \/ \E i \in 1..Len(a) :
       /\ i <= Len(b)
       /\ \A j \in 1..(i - 1) : a[j] = b[j]
       /\ CodeUnit(a[i]) < CodeUnit(b[i])

\* the texts of a set, in ascending order
RECURSIVE SortTexts(_)
SortTexts(S) ==
  IF S = {} THEN <<>>
  ELSE LET m == CHOOSE x \in S : \A y \in S \ {x} : TextLess(x, y)
       IN <<m>> \o SortTexts(S \ {m})

\* ------------------------------------------------------- password strength
Max(a, b) == IF a >= b THEN a ELSE b
Min(a, b) == IF a <= b THEN a ELSE b

\* the character classes of the regular expressions of evaluateStrength
IsLower(c) == \E i \in 1..26 : LowerLetters[i] = c
IsUpper(c) == \E i \in 1..26 : UpperLetters[i] = c
IsDigit(c) == c \in {"0", "1", "2", "3", "4", "5", "6", "7", "8", "9"}
IsSymbol(c) == ~IsLower(c) /\ ~IsUpper(c) /\ ~IsDigit(c)

\* a pattern that matches a character twice in a row
hasRepeat_Pair(t) ==
  \E i \in 1..(Len(t) - 1) : t[i] = t[i + 1]

\* /(.)\1{2,}/ : some character three times in a row
hasRepeat(t) ==
  \E i \in 1..(Len(t) - 2) : t[i] = t[i + 1] /\ t[i + 1] = t[i + 2]

\* /^prefix/ , and /^prefix/i when ignoreCase
startsWith(t, prefix, ignoreCase) ==
  /\ Len(t) >= Len(prefix)
  /\ \A i \in 1..Len(prefix) :
       (IF ignoreCase THEN LowerChar(t[i]) ELSE t[i]) = prefix[i]

\* weakPatterns
weakPatterns ==
  << [prefix |-> <<"1", "2", "3">>, ignoreCase |-> FALSE],
     [prefix |-> <<"a", "b", "c">>, ignoreCase |-> TRUE],
     [prefix |-> <<"p", "a", "s", "s", "w", "o", "r", "d">>, ignoreCase |-> TRUE],
     [prefix |-> <<"q", "w", "e", "r", "t", "y">>, ignoreCase |-> TRUE],
     [prefix |-> <<"1", "1", "1">>, ignoreCase |-> FALSE],
     [prefix |-> <<"0", "0", "0">>, ignoreCase |-> FALSE],
     [prefix |-> <<"a", "d", "m", "i", "n">>, ignoreCase |-> TRUE] >>

\* levels[capped].level
levels == <<"weak", "weak", "fair", "strong", "excellent">>

\* a score that is not clamped at the end
evaluateStrength_Unclamped(password) ==
  IF ~TruthyText(password) THEN [score |-> 0, level |-> "none"]
  ELSE
  LET len == Len(password)
      Has(C(_)) == \E i \in 1..len : C(password[i])
      All(C(_)) == \A i \in 1..len : C(password[i])
      Letter(c) == IsLower(c) \/ IsUpper(c)
      lengthScore == (IF len >= 8 THEN 1 ELSE 0) + (IF len >= 14 THEN 1 ELSE 0)
                       + (IF len >= 20 THEN 1 ELSE 0)
      charTypes == (IF Has(IsLower) THEN 1 ELSE 0) + (IF Has(IsUpper) THEN 1 ELSE 0)
                     + (IF Has(IsDigit) THEN 1 ELSE 0) + (IF Has(IsSymbol) THEN 1 ELSE 0)
      s1 == lengthScore + Max(0, charTypes - 1)
      s2 == IF All(IsDigit) \/ All(Letter) THEN Max(s1 - 2, 0) ELSE s1
      s3 == IF hasRepeat(password) THEN Max(s2 - 1, 0) ELSE s2
      s4 == IF \E k \in 1..Len(weakPatterns) :
                 startsWith(password, weakPatterns[k].prefix,
                            weakPatterns[k].ignoreCase)
              THEN Max(s3 - 1, 0) ELSE s3
      s5 == IF len < 6 THEN Min(s4, 1) ELSE s4
      capped == Min(Max(s5, 0), 4)
  IN [score |-> s5, level |-> levels[capped + 1]]

\* SPCCrypto.evaluateStrength(password): the score and the level
evaluateStrength(password) ==
  IF ~TruthyText(password) THEN [score |-> 0, level |-> "none"]
  ELSE
  LET len == Len(password)
      Has(C(_)) == \E i \in 1..len : C(password[i])
      All(C(_)) == \A i \in 1..len : C(password[i])
      Letter(c) == IsLower(c) \/ IsUpper(c)
      lengthScore == (IF len >= 8 THEN 1 ELSE 0) + (IF len >= 14 THEN 1 ELSE 0)
                       + (IF len >= 20 THEN 1 ELSE 0)
      charTypes == (IF Has(IsLower) THEN 1 ELSE 0) + (IF Has(IsUpper) THEN 1 ELSE 0)
                     + (IF Has(IsDigit) THEN 1 ELSE 0) + (IF Has(IsSymbol) THEN 1 ELSE 0)
      s1 == lengthScore + Max(0, charTypes - 1)
      s2 == IF All(IsDigit) \/ All(Letter) THEN Max(s1 - 2, 0) ELSE s1
      s3 == IF hasRepeat(password) THEN Max(s2 - 1, 0) ELSE s2
      s4 == IF \E k \in 1..Len(weakPatterns) :
                 startsWith(password, weakPatterns[k].prefix,
                            weakPatterns[k].ignoreCase)
              THEN Max(s3 - 1, 0) ELSE s3
      s5 == IF len < 6 THEN Min(s4, 1) ELSE s4
      capped == Min(Max(s5, 0), 4)
  IN [score |-> capped, level |-> levels[capped + 1]]

\* SPCCrypto.evaluateStrength called on a password
evaluateStrengthCall(password) ==
  LET r == evaluateStrength(password)
  IN /\ ret' = Outcome("evaluateStrength",
                        [tag |-> "evaluateStrength", password |-> password],
                        "ok", [tag |-> "strength", score |-> r.score, level |-> r.level])
     /\ trace' = <<>>
     /\ UNCHANGED <<session, _clipTimer, timers, clipboard, localStorage, now, faults, saves>>

\* the character classes of generatePassword
Digits == <<"0", "1", "2", "3", "4", "5", "6", "7", "8", "9">>
\* the character U+0060, which a string of this module cannot hold
GraveAccent == "<0060>"
Symbols ==
  << "!", "@", "#", "$", "%", "^", "&", "*", "(", ")", "_", "+", "-", "=", "[",
     "]", "{", "}", "|", ";", ":", ",", ".", "<", ">", "?", "/", "~", GraveAccent >>

\* the default of options.length
DEFAULT_LENGTH == 20

\* a property of options, or its default when options does not have it
OptionOr(options, name, default) ==
  IF name \in DOMAIN options THEN options[name] ELSE default

\* a character set from which the excluded characters are not taken out
charsetOf_KeepsExcluded(options) ==
  (IF OptionOr(options, "lowercase", TRUE) THEN LowerLetters ELSE <<>>)
    \o (IF OptionOr(options, "uppercase", TRUE) THEN UpperLetters ELSE <<>>)
    \o (IF OptionOr(options, "digits", TRUE) THEN Digits ELSE <<>>)
    \o (IF OptionOr(options, "symbols", FALSE) THEN Symbols ELSE <<>>)

\* charset: the enabled classes in order, without the excluded characters
charsetOf(options) ==
  LET all == (IF OptionOr(options, "lowercase", TRUE) THEN LowerLetters ELSE <<>>)
               \o (IF OptionOr(options, "uppercase", TRUE) THEN UpperLetters ELSE <<>>)
               \o (IF OptionOr(options, "digits", TRUE) THEN Digits ELSE <<>>)
               \o (IF OptionOr(options, "symbols", FALSE) THEN Symbols ELSE <<>>)
      exclude == OptionOr(options, "exclude", <<>>)
  IN IF TruthyText(exclude)
       THEN SelectSeq(all, LAMBDA c : ~includes(exclude, <<c>>))
       ELSE all

\* the values of a random word of MaxWordBits bits
RECURSIVE pow2(_)
pow2(n) == IF n = 0 THEN 1 ELSE 2 * pow2(n - 1)
WordValues == 0..(pow2(MaxWordBits) - 1)

\* randomValues[i] % charset.length
indexOf(value, size) == value % size

\* generatePassword(options), randomValues being what getRandomValues
\* wrote into the Uint32Array
generatePassword(options, randomValues) ==
  LET length == OptionOr(options, "length", DEFAULT_LENGTH)
      charset == charsetOf(options)
  IN IF charset = <<>>
       THEN [ok |-> FALSE, value |-> <<>>, error |-> "InvalidInput"]
       ELSE [ok |-> TRUE, error |-> "",
             value |-> [i \in 1..length |->
                          charset[indexOf(randomValues[i], Len(charset)) + 1]]]

\* SPCCrypto.generatePassword called with what the caller passes
generatePasswordCall(options, randomValues) ==
  LET r == generatePassword(options, randomValues)
  IN /\ ret' = Outcome("generatePassword",
                        [tag |-> "generatePassword", options |-> options,
                         randomValues |-> randomValues],
                        IF r.ok THEN "ok" ELSE r.error,
                        IF r.ok THEN [tag |-> "text", text |-> r.value] ELSE NoData)
     /\ trace' = <<>>
     /\ UNCHANGED <<session, _clipTimer, timers, clipboard, localStorage, now, faults, saves>>

\* ---------------------------------------------------------------- entries
\* Array.prototype.findIndex: first position whose entry has this id, 0 if none
findIndex(es, id) ==
  IF \E i \in 1..Len(es) : es[i].id = id
    THEN CHOOSE i \in 1..Len(es) :
           /\ es[i].id = id
           /\ \A j \in 1..(i - 1) : es[j].id # id
    ELSE 0

IdsOf(es) == {es[i].id : i \in 1..Len(es)}

\* the argument of save: absent fields are Undef, an absent id is ""
Data(id, name, password, group) ==
  [id |-> id, name |-> name, username |-> Undef, password |-> password,
   url |-> Undef, notes |-> Undef, group |-> group]

\* the arguments callers pass to save: a new entry without an id, an entry
\* under an id the caller chose, and an entry without a password field
SaveInputs ==
  { Data("", Str_bank, Str_pass, Undef),
    Data("u1", Undef, Str_x, Str_W),
    Data("g1", Str_bank, Undef, Undef) }

\* an entry whose createdAt is the time of the save that wrote it last
NewEntry_ResetsCreatedAt(data, existing, hasExisting, uuid, t) ==
  [id |-> IF Truthy(data.id) THEN data.id ELSE uuid,
   name |-> OrText(data.name, <<>>),
   username |-> OrText(data.username, <<>>),
   password |-> OrText(data.password, <<>>),
   url |-> OrText(data.url, <<>>),
   notes |-> OrText(data.notes, <<>>),
   group |-> OrText(data.group, <<>>),
   pwdChangedAt |->
     IF (IF hasExisting THEN existing.password # data.password
                        ELSE data.password # Undef)
       THEN t
       ELSE IF hasExisting /\ existing.pwdChangedAt # 0
              THEN existing.pwdChangedAt ELSE t,
   createdAt |-> t,
   updatedAt |-> t]

\* the entry save builds from its argument
NewEntry(data, existing, hasExisting, uuid, t) ==
  [id |-> IF Truthy(data.id) THEN data.id ELSE uuid,
   name |-> OrText(data.name, <<>>),
   username |-> OrText(data.username, <<>>),
   password |-> OrText(data.password, <<>>),
   url |-> OrText(data.url, <<>>),
   notes |-> OrText(data.notes, <<>>),
   group |-> OrText(data.group, <<>>),
   pwdChangedAt |->
     IF (IF hasExisting THEN existing.password # data.password
                        ELSE data.password # Undef)
       THEN t
       ELSE IF hasExisting /\ existing.pwdChangedAt # 0
              THEN existing.pwdChangedAt ELSE t,
   createdAt |-> IF hasExisting /\ existing.createdAt # 0
                   THEN existing.createdAt ELSE t,
   updatedAt |-> t]

\* an upsert that puts a new entry at the end
upsert_Append(es, entry, idx) ==
  IF idx # 0 THEN [es EXCEPT ![idx] = entry] ELSE es \o <<entry>>

\* the entries after save puts entry in: at the position idx of the existing
\* entry with its id, in front when there is none (idx = 0)
upsert(es, entry, idx) ==
  IF idx # 0 THEN [es EXCEPT ![idx] = entry] ELSE <<entry>> \o es

\* persist(): the new content of localStorage and the effects, given the
\* entries to write; nothing is written when encrypt or setItem throws
persist(es, salt, iv, fail) ==
  IF ~Truthy(_masterKey)
    THEN [storage |-> localStorage, effects |-> <<>>]
  ELSE LET encrypted == encrypt(JSON_stringify(es), _masterKey, salt, iv,
                                fail = "encrypt")
       IN IF ~encrypted.ok \/ fail = "setVault"
            THEN [storage |-> localStorage,
                  effects |-> <<Emit("ERROR", [tag |-> "error"])>>]
            ELSE [storage |-> [localStorage EXCEPT ![LS_VAULT] = encrypted.value],
                  effects |-> <<SetItem(LS_VAULT)>>]

\* save(data)
save(data, uuid, salt, iv, fail) ==
  IF ~assertUnlocked
  THEN /\ fail = "none"
       /\ ret' = Outcome("save", IdArg(data.id), "VaultLocked", NoData)
       /\ trace' = <<>>
       /\ UNCHANGED <<session, _clipTimer, timers, clipboard, localStorage, now, faults, saves>>
  ELSE
  LET idx == IF Truthy(data.id) THEN findIndex(_entries, data.id) ELSE 0
      hasExisting == idx # 0
      existing == IF hasExisting THEN _entries[idx] ELSE NoData
      entry == NewEntry(data, existing, hasExisting, uuid, now)
      es == upsert(_entries, entry, idx)
      p == persist(es, salt, iv, fail)
  IN
  /\ hasExisting \/ Len(_entries) < MaxEntries
  /\ saves < MaxSaves
  /\ saves' = saves + 1
  /\ fail \in {"none", "encrypt", "setVault"}
  /\ fail # "none" => faults < MaxFaults
  /\ faults' = IF fail = "none" THEN faults ELSE faults + 1
  /\ _entries' = es
  /\ localStorage' = p.storage
  /\ ret' = Outcome("save", IdArg(data.id), "ok", EntryValue(entry))
  /\ trace' = p.effects \o <<Emit("VAULT_ENTRY_SAVED", EntryValue(entry))>>
  /\ UNCHANGED <<_masterKey, _locked, _clipTimer, timers, clipboard, now>>

\* remove(id) by splice(findIndex(...), 1): an unknown id removes the last
\* entry
remove_Splice(id, salt, iv, fail) ==
  IF ~assertUnlocked
  THEN /\ fail = "none"
       /\ ret' = Outcome("remove", IdArg(id), "VaultLocked", NoData)
       /\ trace' = <<>>
       /\ UNCHANGED <<session, _clipTimer, timers, clipboard, localStorage, now, faults, saves>>
  ELSE
  LET idx == IF findIndex(_entries, id) = 0 THEN Len(_entries)
                                            ELSE findIndex(_entries, id)
      es == [i \in 1..(Len(_entries) - (IF idx = 0 THEN 0 ELSE 1)) |->
               IF i < idx THEN _entries[i] ELSE _entries[i + 1]]
      p == persist(es, salt, iv, fail)
  IN
  /\ fail \in {"none", "encrypt", "setVault"}
  /\ fail # "none" => faults < MaxFaults
  /\ faults' = IF fail = "none" THEN faults ELSE faults + 1
  /\ _entries' = es
  /\ localStorage' = p.storage
  /\ ret' = Outcome("remove", IdArg(id), "ok", NoData)
  /\ trace' = p.effects \o <<Emit("VAULT_ENTRY_DELETED", IdArg(id))>>
  /\ UNCHANGED <<_masterKey, _locked, _clipTimer, timers, clipboard, now, saves>>

\* remove(id)
remove(id, salt, iv, fail) ==
  IF ~assertUnlocked
  THEN /\ fail = "none"
       /\ ret' = Outcome("remove", IdArg(id), "VaultLocked", NoData)
       /\ trace' = <<>>
       /\ UNCHANGED <<session, _clipTimer, timers, clipboard, localStorage, now, faults, saves>>
  ELSE
  LET es == SelectSeq(_entries, LAMBDA e : e.id # id)
      p == persist(es, salt, iv, fail)
  IN
  /\ fail \in {"none", "encrypt", "setVault"}
  /\ fail # "none" => faults < MaxFaults
  /\ faults' = IF fail = "none" THEN faults ELSE faults + 1
  /\ _entries' = es
  /\ localStorage' = p.storage
  /\ ret' = Outcome("remove", IdArg(id), "ok", NoData)
  /\ trace' = p.effects \o <<Emit("VAULT_ENTRY_DELETED", IdArg(id))>>
  /\ UNCHANGED <<_masterKey, _locked, _clipTimer, timers, clipboard, now, saves>>

\* a read-only operation: it fails with VaultLocked when the vault is
\* locked, and returns value otherwise; nothing else changes
Query(op, arg, value) ==
  /\ ret' = IF assertUnlocked THEN Outcome(op, arg, "ok", value)
                              ELSE Outcome(op, arg, "VaultLocked", NoData)
  /\ trace' = <<>>
  /\ UNCHANGED <<session, _clipTimer, timers, clipboard, localStorage, now, faults, saves>>

\* getAll()
getAll == Query("getAll", NoData, EntriesValue(_entries))

\* getById(id): the first entry with this id, undefined if none
getById(id) ==
  LET idx == findIndex(_entries, id)
  IN Query("getById", IdArg(id),
           IF idx = 0 THEN NoData ELSE EntryValue(_entries[idx]))

\* search(query)
search(query) ==
  LET q == toLowerCase(query)
      Hit(e) == \/ includes(toLowerCase(e.name), q)
                \/ includes(toLowerCase(e.username), q)
                \/ includes(toLowerCase(e.url), q)
                \/ includes(toLowerCase(e.group), q)
  IN Query("search", [tag |-> "query", query |-> query],
           EntriesValue(IF ~TruthyText(query) THEN _entries
                        ELSE SelectSeq(_entries, Hit)))

\* getGroups()
getGroups ==
  LET groups == {_entries[i].group : i \in 1..Len(_entries)} \ {<<>>}
  IN Query("getGroups", NoData, [tag |-> "groups", groups |-> SortTexts(groups)])

\* exportEncrypted(): the entries sealed under the master password
exportEncrypted(salt, iv, fail) ==
  LET encrypted == encrypt(JSON_stringify(_entries), _masterKey, salt, iv,
                           fail = "encrypt")
  IN
  /\ fail \in {"none", "encrypt"}
  /\ ~assertUnlocked => fail = "none"
  /\ fail # "none" => faults < MaxFaults
  /\ faults' = IF fail = "none" THEN faults ELSE faults + 1
  /\ ret' = IF ~assertUnlocked
              THEN Outcome("exportEncrypted", NoData, "VaultLocked", NoData)
            ELSE IF ~encrypted.ok
              THEN Outcome("exportEncrypted", NoData, encrypted.error, NoData)
            ELSE Outcome("exportEncrypted", NoData, "ok",
                         [tag |-> "blob", blob |-> encrypted.value])
  /\ trace' = <<>>
  /\ UNCHANGED <<session, _clipTimer, timers, clipboard, localStorage, now, saves>>

\* ------------------------------------------------------------------ audit
\* 90 days, in seconds (the code counts milliseconds)
NINETY_DAYS == 90 * 24 * 60 * 60

Str_constructor == <<"c", "o", "n", "s", "t", "r", "u", "c", "t", "o", "r">>
Str_proto == <<"_", "_", "p", "r", "o", "t", "o", "_", "_">>

\* names every object literal {} inherits from Object.prototype: a lookup
\* of one of them in an empty object finds a value that is not an array
ObjectPrototypeKeys == {Str_constructor, Str_proto}

\* the values of an object filled by "if (!o[k]) o[k] = []; o[k].push(e)"
\* over es, keys[i] being the key k of es[i], in the order the keys were
\* inserted. No key the model uses is a canonical array index, which
\* Object.values would list first.
GroupBy(es, keys) ==
  LET indices == [i \in 1..Len(es) |-> i]
      firsts == SelectSeq(indices,
                          LAMBDA i : \A j \in 1..(i - 1) : keys[j] # keys[i])
  IN [n \in 1..Len(firsts) |->
        LET members == SelectSeq(indices, LAMBDA i : keys[i] = keys[firsts[n]])
        IN [m \in 1..Len(members) |-> es[members[m]]]]

\* the concatenation of a sequence of sequences
RECURSIVE Flatten(_)
Flatten(ss) == IF ss = <<>> THEN <<>> ELSE Head(ss) \o Flatten(Tail(ss))

\* password.length + ':' + password.slice(0, 3)
bucketKey(e) == <<Len(e.password), SubSeq(e.password, 1, Min(3, Len(e.password)))>>

\* pwdGroups: the entries with a password, by length and first characters
pwdGroups(es) ==
  LET withPassword == SelectSeq(es, LAMBDA e : TruthyText(e.password))
  IN GroupBy(withPassword,
             [i \in 1..Len(withPassword) |-> bucketKey(withPassword[i])])

\* the groups pushed to reused: in each bucket of two or more entries, the
\* groups of two or more entries with the same password
reusedOf(es) ==
  LET exact(group) ==
        IF Len(group) < 2 THEN <<>>
        ELSE SelectSeq(GroupBy(group, [i \in 1..Len(group) |-> group[i].password]),
                       LAMBDA eg : Len(eg) >= 2)
      buckets == pwdGroups(es)
  IN Flatten([n \in 1..Len(buckets) |-> exact(buckets[n])])

\* exactGroups[e.password].push(e) throws a TypeError when the password
\* names an inherited property of the empty object exactGroups
pushThrows(es) ==
  \E n \in 1..Len(pwdGroups(es)) :
    /\ Len(pwdGroups(es)[n]) >= 2
    /\ \E i \in 1..Len(pwdGroups(es)[n]) :
         pwdGroups(es)[n][i].password \in ObjectPrototypeKeys

\* a weak list of the passwords that score below 1
weakOf_BelowOne(es) ==
  SelectSeq(es, LAMBDA e : /\ TruthyText(e.password)
                           /\ evaluateStrength(e.password).score < 1)

weakOf(es) ==
  SelectSeq(es, LAMBDA e : /\ TruthyText(e.password)
                           /\ evaluateStrength(e.password).score <= 1)

\* an old list that takes in the entries exactly 90 days old
oldOf_AtLeast(es, t) ==
  SelectSeq(es, LAMBDA e :
    /\ TruthyText(e.password)
    /\ t - (IF e.pwdChangedAt # 0 THEN e.pwdChangedAt ELSE e.createdAt)
         >= NINETY_DAYS)

\* e.pwdChangedAt || e.createdAt ; an absent timestamp is 0
oldOf(es, t) ==
  SelectSeq(es, LAMBDA e :
    /\ TruthyText(e.password)
    /\ t - (IF e.pwdChangedAt # 0 THEN e.pwdChangedAt ELSE e.createdAt)
         > NINETY_DAYS)

emptyOf(es) == SelectSeq(es, LAMBDA e : ~TruthyText(e.password))

\* a score rounded down
scoreOf_Floor(weak, reused, old, empty, total) ==
  LET issues2 == 2 * weak + 4 * reused + old + 2 * empty
  IN Max(0, (200 * total - 100 * issues2) \div (2 * total))

\* Math.max(0, Math.round(100 - (issues / total) * 100)), computed on twice
\* the issues; Math.round(x) is the floor of x + 1/2. Exact for the sizes
\* of the model, where no rounding error of the division reaches a half.
scoreOf(weak, reused, old, empty, total) ==
  LET issues2 == 2 * weak + 4 * reused + old + 2 * empty
  IN Max(0, (200 * total - 100 * issues2 + total) \div (2 * total))

gradeOf(score) ==
  IF score >= 90 THEN "A" ELSE IF score >= 70 THEN "B"
  ELSE IF score >= 50 THEN "C" ELSE IF score >= 30 THEN "D" ELSE "F"

Report(total, weak, reused, old, empty, score, grade) ==
  [tag |-> "report", total |-> total, weak |-> weak, reused |-> reused,
   old |-> old, empty |-> empty, score |-> score, grade |-> grade]

\* the report without the special case, where 0 / 0 makes the grade F
emptyReport_Computed == Report(0, <<>>, <<>>, <<>>, <<>>, 0, "F")

\* the report of an empty vault
emptyReport == Report(0, <<>>, <<>>, <<>>, <<>>, 100, "A")

\* audit()
audit ==
  /\ trace' = <<>>
  /\ UNCHANGED <<session, _clipTimer, timers, clipboard, localStorage, now, faults, saves>>
  /\ ret' =
       IF ~assertUnlocked THEN Outcome("audit", NoData, "VaultLocked", NoData)
       ELSE IF Len(_entries) = 0
         THEN Outcome("audit", NoData, "ok", emptyReport)
       ELSE IF pushThrows(_entries)
         THEN Outcome("audit", NoData, "TypeError", NoData)
       ELSE LET total == Len(_entries)
                weak == weakOf(_entries)
                reused == reusedOf(_entries)
                old == oldOf(_entries, now)
                empty == emptyOf(_entries)
                score == scoreOf(Len(weak), Len(reused), Len(old), Len(empty), total)
            IN Outcome("audit", NoData, "ok",
                       Report(total, weak, reused, old, empty, score, gradeOf(score)))



\* ---------------------------------------------- VaultService, step by step
\* create, unlock, save and remove are async functions: each runs until it
\* awaits a promise of SPCCrypto and resumes when the promise is settled,
\* and steps of other calls run in between. A call that waits is a record:
\* its number, its function, the await it waits at, the password it holds,
\* the text SPCCrypto works on, and the value it publishes at its end.
Call(n, op, pc, password, text, value) ==
  [n |-> n, op |-> op, pc |-> pc, password |-> password, text |-> text,
   value |-> value]

\* SPCBus.emit without subscribers: the events are recorded in the history
publish(events) ==
  /\ _history' = _history \o [i \in 1..Len(events) |->
                                [event |-> events[i].name, timestamp |-> now]]
  /\ _listeners' = _listeners

\* what a step of a call leaves alone besides the session and localStorage
stepUnchanged ==
  UNCHANGED <<_clipTimer, timers, clipboard, now, faults, saves, rngVars,
              appVars, heapVars, lockedAt>>

\* create(masterPassword), up to await SPCCrypto.createVerifier
createCalled(masterPassword) ==
  LET arg == PwdArg(masterPassword)
      weak == ~Truthy(masterPassword) \/ Len(masterPassword) < MIN_MASTER_LEN
  IN
  /\ started < MaxCalls
  /\ started' = started + 1
  /\ calls' = IF weak THEN calls
              ELSE calls \cup {Call(started + 1, "create", "createVerifier",
                                    masterPassword, NoData, NoData)}
  /\ ret' = Outcome("create", arg, IF weak THEN "WeakMasterPassword" ELSE "pending",
                    NoData)
  /\ trace' = <<>>
  /\ publish(<<>>)
  /\ UNCHANGED <<session, localStorage>>
  /\ stepUnchanged

\* create, from the verifier to await SPCCrypto.encrypt
createVerified(c, vsalt) ==
  /\ c.op = "create" /\ c.pc = "createVerifier"
  /\ localStorage' = [localStorage EXCEPT
                        ![LS_VERIFIER] = createVerifier(c.password, vsalt)]
  /\ calls' = (calls \ {c}) \cup {[c EXCEPT !.pc = "encrypt"]}
  /\ ret' = Outcome("create", PwdArg(c.password), "pending", NoData)
  /\ trace' = <<SetItem(LS_VERIFIER)>>
  /\ publish(<<>>)
  /\ UNCHANGED <<session, started>>
  /\ stepUnchanged

\* create, from the encrypted empty array to its end; failed when
\* SPCCrypto.encrypt rejects
createEncrypted(c, salt, iv, failed) ==
  LET encrypted == encrypt(JSON_stringify(<<>>), c.password, salt, iv, failed)
      effects == IF encrypted.ok
                   THEN <<SetItem(LS_VAULT), Emit("VAULT_UNLOCKED", NoData)>>
                   ELSE <<>>
  IN
  /\ c.op = "create" /\ c.pc = "encrypt"
  /\ calls' = calls \ {c}
  /\ localStorage' = IF encrypted.ok
                       THEN [localStorage EXCEPT ![LS_VAULT] = encrypted.value]
                       ELSE localStorage
  /\ _masterKey' = IF encrypted.ok THEN c.password ELSE _masterKey
  /\ _entries' = IF encrypted.ok THEN <<>> ELSE _entries
  /\ _locked' = IF encrypted.ok THEN FALSE ELSE _locked
  /\ ret' = Outcome("create", PwdArg(c.password),
                    IF encrypted.ok THEN "ok" ELSE encrypted.error, NoData)
  /\ trace' = effects
  /\ publish(Emitted(effects))
  /\ UNCHANGED started
  /\ stepUnchanged

\* the session after unlock has succeeded with these entries
unlocked(c, es, effects) ==
  /\ _entries' = es
  /\ _masterKey' = c.password
  /\ _locked' = FALSE
  /\ ret' = Outcome("unlock", PwdArg(c.password), "ok", NoData)
  /\ trace' = effects
  /\ publish(Emitted(effects))

\* unlock that has thrown
unlockThrows(c, status, effects) ==
  /\ ret' = Outcome("unlock", PwdArg(c.password), status, NoData)
  /\ trace' = effects
  /\ publish(<<>>)
  /\ UNCHANGED session

\* unlock, from the verifier check on: the main blob is read, and
\* decrypted if there is one
unlockRead(c, effects) ==
  LET encrypted == localStorage[LS_VAULT] IN
  IF encrypted = Absent
    THEN /\ calls' = calls \ {c}
         /\ unlocked(c, <<>>, effects \o <<GetItem(LS_VAULT),
                                          Emit("VAULT_UNLOCKED", NoData)>>)
    ELSE /\ calls' = (calls \ {c}) \cup
                       {[c EXCEPT !.pc = "decrypt", !.text = encrypted]}
         /\ ret' = Outcome("unlock", PwdArg(c.password), "pending", NoData)
         /\ trace' = effects \o <<GetItem(LS_VAULT)>>
         /\ publish(<<>>)
         /\ UNCHANGED session

\* unlock(masterPassword), up to await SPCCrypto.checkVerifier, or beyond it
\* when no verifier is stored
unlockCalled(masterPassword) ==
  LET verifier == localStorage[LS_VERIFIER]
      c == Call(started + 1, "unlock", "checkVerifier", masterPassword,
                verifier, NoData)
  IN
  /\ started < MaxCalls
  /\ started' = started + 1
  /\ IF ~Truthy(masterPassword)
       THEN /\ calls' = calls
            /\ unlockThrows(c, "InvalidInput", <<>>)
     ELSE IF verifier # Absent
       THEN /\ calls' = calls \cup {c}
            /\ ret' = Outcome("unlock", PwdArg(masterPassword), "pending", NoData)
            /\ trace' = <<GetItem(LS_VERIFIER)>>
            /\ publish(<<>>)
            /\ UNCHANGED session
     ELSE unlockRead(c, <<GetItem(LS_VERIFIER)>>)
  /\ UNCHANGED localStorage
  /\ stepUnchanged

\* unlock, from the result of checkVerifier on
unlockChecked(c) ==
  /\ c.op = "unlock" /\ c.pc = "checkVerifier"
  /\ IF ~checkVerifier(c.password, c.text)
       THEN /\ calls' = calls \ {c}
            /\ unlockThrows(c, "WrongPassword", <<>>)
       ELSE unlockRead(c, <<>>)
  /\ UNCHANGED <<localStorage, started>>
  /\ stepUnchanged

\* unlock, from the result of decrypt to its end
unlockDecrypted(c) ==
  LET decrypted == decrypt(c.text, c.password)
      parsed == JSON_parse(decrypted.value)
  IN
  /\ c.op = "unlock" /\ c.pc = "decrypt"
  /\ calls' = calls \ {c}
  /\ IF decrypted.ok /\ parsed.ok
       THEN unlocked(c, parsed.value,
                     <<Decrypt(LS_VAULT),
                       Emit("VAULT_UNLOCKED",
                            [tag |-> "count", count |-> Len(parsed.value)])>>)
       ELSE unlockThrows(c, "WrongPasswordOrCorruptData", <<Decrypt(LS_VAULT)>>)
  /\ UNCHANGED <<localStorage, started>>
  /\ stepUnchanged

\* persist(), up to await SPCCrypto.encrypt: the call that waits for the
\* encryption of the entries es under the master password of this moment;
\* it waits for nothing but the await of its caller when there is none
persistCalled(op, arg, es, value) ==
  Call(started + 1, op, IF Truthy(_masterKey) THEN "persist" ELSE "await",
       _masterKey, JSON_stringify(es), value)

\* save(data), up to await persist()
saveCalled(data, uuid) ==
  LET idx == IF Truthy(data.id) THEN findIndex(_entries, data.id) ELSE 0
      hasExisting == idx # 0
      existing == IF hasExisting THEN _entries[idx] ELSE NoData
      entry == NewEntry(data, existing, hasExisting, uuid, now)
      es == upsert(_entries, entry, idx)
  IN
  /\ started < MaxCalls
  /\ started' = started + 1
  /\ assertUnlocked => (hasExisting \/ Len(_entries) < MaxEntries)
  /\ _entries' = IF assertUnlocked THEN es ELSE _entries
  /\ calls' = IF assertUnlocked
                THEN calls \cup {persistCalled("save", IdArg(data.id), es,
                                               EntryValue(entry))}
                ELSE calls
  /\ ret' = Outcome("save", IdArg(data.id),
                    IF assertUnlocked THEN "pending" ELSE "VaultLocked", NoData)
  /\ trace' = <<>>
  /\ publish(<<>>)
  /\ UNCHANGED <<_masterKey, _locked, localStorage>>
  /\ stepUnchanged

\* remove(id), up to await persist()
removeCalled(id) ==
  LET es == SelectSeq(_entries, LAMBDA e : e.id # id) IN
  /\ started < MaxCalls
  /\ started' = started + 1
  /\ _entries' = IF assertUnlocked THEN es ELSE _entries
  /\ calls' = IF assertUnlocked
                THEN calls \cup {persistCalled("remove", IdArg(id), es, IdArg(id))}
                ELSE calls
  /\ ret' = Outcome("remove", IdArg(id),
                    IF assertUnlocked THEN "pending" ELSE "VaultLocked", NoData)
  /\ trace' = <<>>
  /\ publish(<<>>)
  /\ UNCHANGED <<_masterKey, _locked, localStorage>>
  /\ stepUnchanged

\* save and remove, from the end of persist to their end: the blob is
\* written, or ERROR is published when SPCCrypto.encrypt has rejected, and
\* the notification of the call is published
persisted(c, salt, iv, failed) ==
  LET encrypted == encrypt(c.text, c.password, salt, iv, failed)
      written == c.pc = "persist" /\ encrypted.ok
      effects == (IF c.pc # "persist" THEN <<>>
                  ELSE IF written THEN <<SetItem(LS_VAULT)>>
                  ELSE <<Emit("ERROR", [tag |-> "error"])>>)
                 \o <<Emit(IF c.op = "save" THEN "VAULT_ENTRY_SAVED"
                                            ELSE "VAULT_ENTRY_DELETED", c.value)>>
  IN
  /\ c.op \in {"save", "remove"}
  /\ calls' = calls \ {c}
  /\ localStorage' = IF written
                       THEN [localStorage EXCEPT ![LS_VAULT] = encrypted.value]
                       ELSE localStorage
  /\ ret' = Outcome(c.op, IF c.op = "save" THEN IdArg(c.value.entry.id) ELSE c.value,
                    "ok", IF c.op = "save" THEN c.value ELSE NoData)
  /\ trace' = effects
  /\ publish(Emitted(effects))
  /\ UNCHANGED <<session, started>>
  /\ stepUnchanged

\* lock(), which waits for nothing
lockCalled(written) ==
  /\ started < MaxCalls
  /\ started' = started + 1
  /\ lockedAt' = started + 1
  /\ lock(written)
  /\ publish(Emitted(trace'))
  /\ UNCHANGED <<calls, rngVars, appVars, heapVars>>

\* ------------------------------------------------- SPCCrypto, byte by byte
\* encrypt and decrypt on the bytes of the blob. A byte is a record: what
\* it is a byte of, and the bit that was flipped in it after it was
\* produced (0: none). The operators encrypt and decrypt above, which the
\* vault specifications use, keep of a blob what these determine: the salt,
\* the nonce, and the key and plaintext the ciphertext opens to.
SALT_LENGTH == 16
IV_LENGTH == 12
\* length of the authentication tag AES-GCM appends to the ciphertext
TAG_LENGTH == 16

Byte(kind, v) == [kind |-> kind, v |-> v, flip |-> 0]

\* crypto.getRandomValues(new Uint8Array(n)), seed naming the outcome
getRandomValues(n, seed) == [i \in 1..n |-> Byte("random", [seed |-> seed, pos |-> i])]

\* characters of the plaintexts: an unpaired surrogate, the replacement
\* character U+FFFD and the byte order mark U+FEFF, besides ASCII letters
LoneSurrogate == "<D800>"
ReplacementChar == "<FFFD>"
ByteOrderMark == "<FEFF>"

\* the UTF-8 bytes of U+FFFD and of U+FEFF
Utf8Replacement == <<Byte("utf8", "EF"), Byte("utf8", "BF"), Byte("utf8", "BD")>>
Utf8ByteOrderMark == <<Byte("utf8", "EF"), Byte("utf8", "BB"), Byte("utf8", "BF")>>

\* encoder.encode(text): TextEncoder writes U+FFFD for an unpaired surrogate
\* and nothing for undefined
encode(text) ==
  IF text = Undef THEN <<>> ELSE
  Flatten([i \in 1..Len(text) |->
             IF text[i] \in {LoneSurrogate, ReplacementChar} THEN Utf8Replacement
             ELSE IF text[i] = ByteOrderMark THEN Utf8ByteOrderMark
             ELSE <<Byte("utf8", text[i])>>])

\* the characters of well-formed UTF-8 bytes
RECURSIVE decodeChars(_)
decodeChars(bytes) ==
  IF bytes = <<>> THEN <<>>
  ELSE IF Len(bytes) >= 3 /\ SubSeq(bytes, 1, 3) = Utf8Replacement
    THEN <<ReplacementChar>> \o decodeChars(SubSeq(bytes, 4, Len(bytes)))
  ELSE IF Len(bytes) >= 3 /\ SubSeq(bytes, 1, 3) = Utf8ByteOrderMark
    THEN <<ByteOrderMark>> \o decodeChars(SubSeq(bytes, 4, Len(bytes)))
  ELSE <<Head(bytes).v>> \o decodeChars(Tail(bytes))

\* decoder.decode(bytes): TextDecoder drops a byte order mark at the start
decode(bytes) ==
  IF Len(bytes) >= 3 /\ SubSeq(bytes, 1, 3) = Utf8ByteOrderMark
    THEN decodeChars(SubSeq(bytes, 4, Len(bytes)))
    ELSE decodeChars(bytes)

\* crypto.subtle.encrypt with AES-GCM: a ciphertext byte for every
\* plaintext byte, then the tag over key, nonce and plaintext
subtleEncrypt(key, iv, plainBytes) ==
  [i \in 1..(Len(plainBytes) + TAG_LENGTH) |->
     IF i <= Len(plainBytes)
       THEN Byte("ciphertext", [key |-> key, iv |-> iv, pos |-> i, of |-> plainBytes[i]])
       ELSE Byte("tag", [key |-> key, iv |-> iv, pos |-> i - Len(plainBytes),
                         of |-> plainBytes])]

\* the plaintext bytes the first n bytes of data stand for
plainOf(data, n) ==
  [i \in 1..n |-> IF data[i].kind = "ciphertext" THEN data[i].v.of ELSE data[i]]

\* a decryption that does not verify the tag
subtleDecrypt_Unauthenticated(key, iv, data) ==
  IF Len(data) < TAG_LENGTH
    THEN [ok |-> FALSE, value |-> <<>>, error |-> "OperationError"]
    ELSE [ok |-> TRUE, value |-> plainOf(data, Len(data) - TAG_LENGTH), error |-> ""]

\* crypto.subtle.decrypt with AES-GCM: the plaintext when data is what
\* encryption under this key and nonce produced, OperationError otherwise
subtleDecrypt(key, iv, data) ==
  IF Len(data) < TAG_LENGTH
    THEN [ok |-> FALSE, value |-> <<>>, error |-> "OperationError"]
  ELSE LET plainBytes == plainOf(data, Len(data) - TAG_LENGTH)
       IN IF data = subtleEncrypt(key, iv, plainBytes)
            THEN [ok |-> TRUE, value |-> plainBytes, error |-> ""]
            ELSE [ok |-> FALSE, value |-> <<>>, error |-> "OperationError"]

\* a length check that asks for a byte of ciphertext besides the tag
minPackedLength_WithTag == SALT_LENGTH + IV_LENGTH + TAG_LENGTH + 1

\* the least length decrypt accepts
minPackedLength == SALT_LENGTH + IV_LENGTH + 1

\* encrypt(plaintext, password), salt and iv naming what getRandomValues
\* returned: the bytes salt || iv || ciphertext || tag, in Base64
encryptBytes(plaintext, password, salt, iv) ==
  IF plaintext = Undef \/ ~Truthy(password)
    THEN [ok |-> FALSE, value |-> Absent, error |-> "InvalidInput"]
  ELSE LET saltBytes == getRandomValues(SALT_LENGTH, salt)
           ivBytes == getRandomValues(IV_LENGTH, iv)
           key == deriveKey(password, saltBytes)
           ciphertextBytes == subtleEncrypt(key, ivBytes, encode(plaintext))
           packed == [i \in 1..(SALT_LENGTH + IV_LENGTH + Len(ciphertextBytes)) |->
                        IF i <= SALT_LENGTH THEN saltBytes[i]
                        ELSE IF i <= SALT_LENGTH + IV_LENGTH
                          THEN ivBytes[i - SALT_LENGTH]
                        ELSE ciphertextBytes[i - (SALT_LENGTH + IV_LENGTH)]]
       IN [ok |-> TRUE, value |-> uint8ToBase64(packed), error |-> ""]

\* decrypt(cipherBundle, password)
decryptBytes(cipherBundle, password) ==
  IF cipherBundle = Absent \/ base64ToUint8(cipherBundle) = <<>> \/ ~Truthy(password)
    THEN [ok |-> FALSE, value |-> <<>>, error |-> "InvalidInput"]
  ELSE LET packed == base64ToUint8(cipherBundle) IN
  IF Len(packed) < minPackedLength
    THEN [ok |-> FALSE, value |-> <<>>, error |-> "TooShort"]
  ELSE LET salt == SubSeq(packed, 1, SALT_LENGTH)
           iv == SubSeq(packed, SALT_LENGTH + 1, SALT_LENGTH + IV_LENGTH)
           ciphertext == SubSeq(packed, SALT_LENGTH + IV_LENGTH + 1, Len(packed))
           key == deriveKey(password, salt)
           plainBytes == subtleDecrypt(key, iv, ciphertext)
       IN IF plainBytes.ok
            THEN [ok |-> TRUE, value |-> decode(plainBytes.value), error |-> ""]
            ELSE [ok |-> FALSE, value |-> <<>>, error |-> "AuthenticationFailed"]

\* the blob with bit number bit of its byte number pos flipped
flipBit(cipherBundle, pos, bit) ==
  uint8ToBase64([base64ToUint8(cipherBundle) EXCEPT ![pos].flip = bit])

\* SPCCrypto.encrypt called with what the caller passes
encryptCall(plaintext, password, salt, iv) ==
  LET r == encryptBytes(plaintext, password, salt, iv)
  IN /\ ret' = Outcome("encrypt",
                       [tag |-> "encrypt", plaintext |-> plaintext, password |-> password],
                       IF r.ok THEN "ok" ELSE r.error,
                       IF r.ok THEN [tag |-> "blob", blob |-> r.value] ELSE NoData)
     /\ trace' = <<>>
     /\ UNCHANGED <<session, _clipTimer, timers, clipboard, localStorage, now, faults, saves>>

\* one bit of the blob encrypt returned is flipped before it is decrypted
tamper(pos, bit) ==
  /\ ret.op = "encrypt"
  /\ ret.status = "ok"
  /\ pos \in 1..Len(base64ToUint8(ret.value.blob))
  /\ ret' = Outcome("tamper",
                    [tag |-> "tamper", plaintext |-> ret.arg.plaintext,
                     password |-> ret.arg.password, pos |-> pos],
                    "ok", [tag |-> "blob", blob |-> flipBit(ret.value.blob, pos, bit)])
  /\ trace' = <<>>
  /\ UNCHANGED <<session, _clipTimer, timers, clipboard, localStorage, now, faults, saves>>

\* the blob encrypt returned is cut to its first n bytes before it is
\* decrypted
truncate(n) ==
  /\ ret.op = "encrypt"
  /\ ret.status = "ok"
  /\ n < Len(base64ToUint8(ret.value.blob))
  /\ ret' = Outcome("truncate",
                    [tag |-> "truncate", plaintext |-> ret.arg.plaintext,
                     password |-> ret.arg.password, length |-> n],
                    "ok",
                    [tag |-> "blob",
                     blob |-> uint8ToBase64(SubSeq(base64ToUint8(ret.value.blob), 1, n))])
  /\ trace' = <<>>
  /\ UNCHANGED <<session, _clipTimer, timers, clipboard, localStorage, now, faults, saves>>

\* SPCCrypto.decrypt called on the blob at hand
decryptCall(password) ==
  /\ ret.op \in {"encrypt", "tamper", "truncate"}
  /\ ret.status = "ok"
  /\ LET r == decryptBytes(ret.value.blob, password)
     IN ret' = Outcome("decrypt",
                       [tag |-> "decrypt", cipherBundle |-> ret.value.blob,
                        password |-> password],
                       IF r.ok THEN "ok" ELSE r.error,
                       IF r.ok THEN [tag |-> "text", text |-> r.value] ELSE NoData)
  /\ trace' = <<>>
  /\ UNCHANGED <<session, _clipTimer, timers, clipboard, localStorage, now, faults, saves>>

\* length of the salt of a verifier and of a SHA-256 digest
VERIFIER_SALT_LENGTH == 32
DIGEST_LENGTH == 32

\* crypto.subtle.digest with SHA-256, modelled as injective: 32 bytes that
\* name the bytes hashed
digest(bytes) == [i \in 1..DIGEST_LENGTH |-> Byte("sha256", [of |-> bytes, pos |-> i])]

\* text that is not Base64
NotBase64 == [kind |-> "text", bytes |-> <<>>]

\* atob(base64) as base64ToUint8 calls it: the bytes of Base64 text; null
\* reads as the text "null", which decodes to three bytes; atob throws on
\* text that is not Base64
atob(base64) ==
  IF base64 = Absent
    THEN [ok |-> TRUE, error |-> "",
          value |-> [i \in 1..3 |-> Byte("atob", [of |-> "null", pos |-> i])]]
  ELSE IF base64.kind = "base64"
    THEN [ok |-> TRUE, error |-> "", value |-> base64ToUint8(base64)]
  ELSE [ok |-> FALSE, error |-> "InvalidCharacterError", value |-> <<>>]

\* bytes.slice(from) and bytes.slice(from, to), counted from 0 as in the code
slice(bytes, from, to) ==
  SubSeq(bytes, Min(from, Len(bytes)) + 1, Min(to, Len(bytes)))

\* createVerifier(password), salt naming what getRandomValues returned:
\* salt || SHA-256(salt || SHA-256(password)), in Base64
createVerifierBytes(password, salt) ==
  LET saltBytes == getRandomValues(VERIFIER_SALT_LENGTH, salt)
      pwdHash == digest(encode(password))
      combined == saltBytes \o pwdHash
      verifyHash == digest(combined)
      result == saltBytes \o verifyHash
  IN uint8ToBase64(result)

\* a check that hashes the salt alone
checkVerifierBytes_IgnoresPassword(password, verifier) ==
  LET data == atob(verifier) IN
  IF ~data.ok THEN [ok |-> TRUE, value |-> FALSE, error |-> ""]
  ELSE LET salt == slice(data.value, 0, VERIFIER_SALT_LENGTH)
           storedHash == slice(data.value, VERIFIER_SALT_LENGTH, Len(data.value))
           computedHash == digest(salt \o digest(<<>>))
       IN [ok |-> TRUE, value |-> timingSafeEqual(storedHash, computedHash),
           error |-> ""]

\* checkVerifier(password, verifier): whatever is thrown inside is caught
\* and false is returned
checkVerifierBytes(password, verifier) ==
  LET data == atob(verifier) IN
  IF ~data.ok THEN [ok |-> TRUE, value |-> FALSE, error |-> ""]
  ELSE LET salt == slice(data.value, 0, VERIFIER_SALT_LENGTH)
           storedHash == slice(data.value, VERIFIER_SALT_LENGTH, Len(data.value))
           pwdHash == digest(encode(password))
           combined == salt \o pwdHash
           computedHash == digest(combined)
       IN [ok |-> TRUE, value |-> timingSafeEqual(storedHash, computedHash),
           error |-> ""]

\* the values of the elements of the byte strings compared, of two bits
ByteValues == 0..3

\* x ^ y and x | y on non-negative integers
RECURSIVE bitXor(_, _)
bitXor(x, y) ==
  IF x = 0 /\ y = 0 THEN 0
  ELSE (((x % 2) + (y % 2)) % 2) + 2 * bitXor(x \div 2, y \div 2)

RECURSIVE bitOr(_, _)
bitOr(x, y) ==
  IF x = 0 /\ y = 0 THEN 0
  ELSE Max(x % 2, y % 2) + 2 * bitOr(x \div 2, y \div 2)

\* the loop of timingSafeEqual from index i on, with the result so far and
\* the passes through the loop body counted
RECURSIVE timingSafeEqualLoop(_, _, _, _, _)
timingSafeEqualLoop(a, b, i, result, steps) ==
  IF i < Len(a)
    THEN timingSafeEqualLoop(a, b, i + 1,
                             bitOr(result, bitXor(a[i + 1], b[i + 1])), steps + 1)
    ELSE [value |-> result = 0, steps |-> steps]

\* a comparison that returns at the first difference
timingSafeEqualBytes_ShortCircuit(a, b) ==
  IF Len(a) # Len(b) THEN [value |-> FALSE, steps |-> 0]
  ELSE LET differ == {i \in 1..Len(a) : a[i] # b[i]}
       IN IF differ = {} THEN [value |-> TRUE, steps |-> Len(a)]
          ELSE [value |-> FALSE,
                steps |-> CHOOSE i \in differ : \A j \in differ : i <= j]

\* timingSafeEqual(a, b) on byte values: what it returns and how many
\* times it went through the loop body
timingSafeEqualBytes(a, b) ==
  IF Len(a) # Len(b) THEN [value |-> FALSE, steps |-> 0]
  ELSE timingSafeEqualLoop(a, b, 0, 0, 0)

\* timingSafeEqual called on two byte strings
timingSafeEqualCall(a, b) ==
  LET r == timingSafeEqualBytes(a, b)
  IN /\ ret' = Outcome("timingSafeEqual", [tag |-> "timingSafeEqual", a |-> a, b |-> b],
                        "ok", [tag |-> "compared", value |-> r.value, steps |-> r.steps])
     /\ trace' = <<>>
     /\ UNCHANGED <<session, _clipTimer, timers, clipboard, localStorage, now, faults, saves>>

\* SPCCrypto.createVerifier called with what the caller passes
createVerifierCall(password, salt) ==
  /\ ret' = Outcome("createVerifier",
                    [tag |-> "createVerifier", password |-> password],
                    "ok",
                    [tag |-> "verifier",
                     verifier |-> createVerifierBytes(password, salt)])
  /\ trace' = <<>>
  /\ UNCHANGED <<session, _clipTimer, timers, clipboard, localStorage, now, faults, saves>>

\* the verifier createVerifier returned is damaged before it is checked:
\* cut to its first n bytes, replaced by text that is not Base64, or lost
damageVerifier(how, n) ==
  /\ ret.op = "createVerifier"
  /\ how \in {"cut", "text", "null"}
  /\ n < Len(base64ToUint8(ret.value.verifier))
  /\ how # "cut" => n = 0
  /\ ret' = Outcome("damageVerifier",
                    [tag |-> "damageVerifier", password |-> ret.arg.password,
                     how |-> how, length |-> n],
                    "ok",
                    [tag |-> "verifier",
                     verifier |->
                       CASE how = "cut" ->
                              uint8ToBase64(slice(base64ToUint8(ret.value.verifier), 0, n))
                         [] how = "text" -> NotBase64
                         [] OTHER -> Absent])
  /\ trace' = <<>>
  /\ UNCHANGED <<session, _clipTimer, timers, clipboard, localStorage, now, faults, saves>>

\* SPCCrypto.checkVerifier called on the verifier at hand
checkVerifierCall(password) ==
  /\ ret.op \in {"createVerifier", "damageVerifier"}
  /\ LET r == checkVerifierBytes(password, ret.value.verifier)
     IN ret' = Outcome("checkVerifier",
                       [tag |-> "checkVerifier", verifier |-> ret.value.verifier,
                        password |-> password],
                       IF r.ok THEN "ok" ELSE r.error,
                       [tag |-> "boolean", value |-> r.value])
  /\ trace' = <<>>
  /\ UNCHANGED <<session, _clipTimer, timers, clipboard, localStorage, now, faults, saves>>


\* ----------------------------------------------------------- specification
\* entries a previous session left in the vault
OldEntry(id, name, password, group) ==
  [id |-> id, name |-> name, username |-> <<>>, password |-> password,
   url |-> <<>>, notes |-> <<>>, group |-> group,
   pwdChangedAt |-> StartTime - TickLen, createdAt |-> StartTime - TickLen,
   updatedAt |-> StartTime - TickLen]

OldEntries ==
  << OldEntry("g1", Str_bank, Str_pass, <<>>), OldEntry("u1", <<>>, Str_x, Str_W) >>

Sealed(text, password) == encrypt(text, password, 1, 2, FALSE).value

\* what localStorage may hold when the page is loaded: nothing, a vault of
\* an earlier session, or a blob under the compatibility key alone, left
\* by an earlier version, whose plaintext is not a JSON array
InitialStorage ==
  { [k \in {LS_VAULT, LS_VERIFIER} |-> Absent],
    [k \in {LS_VAULT, LS_VERIFIER} |->
       IF k = LS_VAULT THEN Sealed(JSON_stringify(OldEntries), "abcd")
                       ELSE createVerifier("abcd", 1)],
    [k \in {LS_VAULT, LS_VERIFIER} |->
       IF k = LS_VAULT THEN Sealed(GarbageText, "abcd") ELSE Absent] }

\* the page is loaded: the lock screen is hidden and the user was just active
InitRest ==
  /\ lockscreen = FALSE
  /\ lastActivity = StartTime
  /\ addrs = <<>>
  /\ allocated = 0
  /\ held = {}
  /\ calls = {}
  /\ started = 0
  /\ lockedAt = 0

Init ==
  /\ InitRest
  /\ _masterKey = Undefined
  /\ _entries = <<>>
  /\ _locked = TRUE
  /\ _clipTimer = 0
  /\ timers = {}
  /\ clipboard = <<>>
  /\ localStorage \in InitialStorage
  /\ now = StartTime
  /\ faults = 0
  /\ saves = 0
  /\ ret = Outcome("load", NoData, "ok", NoData)
  /\ trace = <<>>
  /\ drawn = 0
  /\ encryptions = <<>>
  /\ _listeners = [event \in BusEvents |-> <<>>]
  /\ _history = <<>>

Create ==
  /\ \E p \in MasterPasswords, vsalt \in Salts, salt \in Salts, iv \in IVs,
        fail \in {"none", "setVerifier", "encrypt", "setVault"} :
       create(p, vsalt, salt, iv, fail)
  /\ UNCHANGED others

Unlock == (\E p \in MasterPasswords : unlock(p)) /\ UNCHANGED others

Lock == (\E written \in BOOLEAN : lock(written)) /\ UNCHANGED others

\* crypto.randomUUID returns an identifier no entry of the vault has
Save ==
  /\ \E data \in SaveInputs, salt \in Salts, iv \in IVs,
        fail \in {"none", "encrypt", "setVault"} :
       \E uuid \in IF Truthy(data.id) \/ _locked THEN {""}
                    ELSE GenIds \ IdsOf(_entries) :
         save(data, uuid, salt, iv, fail)
  /\ UNCHANGED others

Remove ==
  /\ \E id \in Ids, salt \in Salts, iv \in IVs,
        fail \in {"none", "encrypt", "setVault"} :
       remove(id, salt, iv, fail)
  /\ UNCHANGED others

GetAll == getAll /\ UNCHANGED others

GetById == (\E id \in {"g1", "g2"} : getById(id)) /\ UNCHANGED others

Search == (\E query \in {Undef, <<"w">>} : search(query)) /\ UNCHANGED others

GetGroups == getGroups /\ UNCHANGED others

SecureCopy ==
  (\E written \in BOOLEAN : secureCopy(Str_pass, written)) /\ UNCHANGED others

ClipTimerFires ==
  (\E written \in BOOLEAN : clipTimerFires(written)) /\ UNCHANGED others

Next ==
  \/ Create
  \/ Unlock
  \/ Lock
  \/ Save
  \/ Remove
  \/ GetAll
  \/ GetById
  \/ Search
  \/ GetGroups

\* the vault operations, called in any order, one at a time
Spec == Init /\ [][Next]_vars

\* the vault and the page around it: the user creates, unlocks and locks
\* the vault, presses Ctrl+L, types into the lock screen, moves the mouse
\* and stays away
appOthers == UNCHANGED <<rngVars, busVars, heapVars, asyncVars>>

ResetActivity == resetActivity /\ appOthers

ManualLock == SPC_lock("SPC.lock", <<>>) /\ appOthers

AutoLockCheck == autoLockCheck /\ appOthers

AppUnlock == (\E pwd \in {LOCK_PASSWORD, "abcd"} : SPC_unlock(pwd)) /\ appOthers

NextApp ==
  \/ Create
  \/ Unlock
  \/ Lock
  \/ ManualLock
  \/ AutoLockCheck
  \/ AppUnlock
  \/ ResetActivity
  \/ Idle

SpecApp == Init /\ [][NextApp]_vars

\* locking, unlocking and the clipboard, with time passing
NextClip ==
  \/ Unlock
  \/ Lock
  \/ SecureCopy
  \/ ClipTimerFires
  \/ Tick

SpecClip == Init /\ [][NextClip]_vars

\* entries an earlier session left in a vault that is audited: passwords
\* that are empty, weak, strong, shared, alike in length and first
\* characters, and of every age around 90 days; AuditEntry("e3", ...) was
\* written before entries had a pwdChangedAt
Str_psw == <<"p", "@", "s", "w">>
Str_strong == <<"a", "B", "3", "$", "x", "y">>

AuditEntry(id, password, pwdChangedAt, createdAt) ==
  [id |-> id, name |-> Str_bank, username |-> <<>>, password |-> password,
   url |-> <<>>, notes |-> <<>>, group |-> <<>>,
   pwdChangedAt |-> pwdChangedAt, createdAt |-> createdAt,
   updatedAt |-> IF pwdChangedAt # 0 THEN pwdChangedAt ELSE createdAt]

AuditPool ==
  LET new == StartTime - TickLen
      edge == StartTime - NINETY_DAYS
      old == StartTime - NINETY_DAYS - TickLen
  IN << AuditEntry("g1", <<>>, old, old),
        AuditEntry("u1", Str_x, edge, old),
        AuditEntry("e1", Str_pass, new, new),
        AuditEntry("e2", Str_pass, old, old),
        AuditEntry("e3", Str_psw, 0, edge),
        AuditEntry("e4", Str_strong, new, old),
        AuditEntry("e5", Str_constructor, new, new),
        AuditEntry("e6", Str_constructor, new, new) >>

\* the vaults audited: up to MaxAudited entries of the pool, in its order
AuditVaults ==
  { SelectSeq(AuditPool, LAMBDA e : e.id \in S) :
      S \in { T \in SUBSET IdsOf(AuditPool) : Cardinality(T) <= MaxAudited } }

InitAudit ==
  /\ InitRest
  /\ _masterKey = Undefined
  /\ _entries = <<>>
  /\ _locked = TRUE
  /\ _clipTimer = 0
  /\ timers = {}
  /\ clipboard = <<>>
  /\ \E es \in AuditVaults :
       localStorage = [k \in {LS_VAULT, LS_VERIFIER} |->
                         IF k = LS_VAULT THEN Sealed(JSON_stringify(es), "abcd")
                                         ELSE createVerifier("abcd", 1)]
  /\ now = StartTime
  /\ faults = 0
  /\ saves = 0
  /\ ret = Outcome("load", NoData, "ok", NoData)
  /\ trace = <<>>
  /\ drawn = 0
  /\ encryptions = <<>>
  /\ _listeners = [event \in BusEvents |-> <<>>]
  /\ _history = <<>>

Audit == audit /\ UNCHANGED others

\* a vault of an earlier session is unlocked and audited as time passes
NextAudit ==
  \/ Unlock
  \/ Lock
  \/ Audit
  \/ Tick

SpecAudit == InitAudit /\ [][NextAudit]_vars

\* a vault of an earlier session, with an entry without a password, is
\* unlocked and edited as time passes
InitEdit ==
  /\ InitAudit
  /\ localStorage[LS_VAULT] =
       Sealed(JSON_stringify(SubSeq(AuditPool, 1, 2)), "abcd")

NextEdit ==
  \/ Unlock
  \/ Save
  \/ Tick

SpecEdit == InitEdit /\ [][NextEdit]_vars

\* the same vault is unlocked, edited and audited as time passes
NextStamp ==
  \/ Unlock
  \/ Save
  \/ Audit
  \/ Tick

SpecStamp == InitEdit /\ [][NextStamp]_vars

\* The entries as objects. The elements of _entries are objects that the
\* values the vault returns and the payloads it publishes refer to: addrs[i]
\* names the object that is _entries[i].
heapOthers == UNCHANGED <<rngVars, busVars, appVars, asyncVars>>

\* the objects of these entries, which are elements of _entries
objectsOf(es) ==
  {addrs[i] : i \in {j \in 1..Len(_entries) : \E k \in 1..Len(es) : es[k] = _entries[j]}}

\* unlock: JSON.parse makes a new object of every entry
UnlockObjects ==
  /\ \E p \in {"abcd"} : unlock(p)
  /\ allocated + Len(_entries') <= MaxObjects
  /\ addrs' = IF ret'.status = "ok"
                THEN [i \in 1..Len(_entries') |-> allocated + i] ELSE addrs
  /\ allocated' = IF ret'.status = "ok" THEN allocated + Len(_entries') ELSE allocated
  /\ held' = held
  /\ heapOthers

\* lock: _entries is a new, empty array
LockObjects ==
  /\ \E written \in {TRUE} : lock(written)
  /\ addrs' = <<>>
  /\ UNCHANGED <<allocated, held>>
  /\ heapOthers

\* save: entry is a new object, put into _entries, passed to the
\* subscribers of VAULT_ENTRY_SAVED and returned
SaveObjects ==
  /\ allocated < MaxObjects
  /\ \E data \in SaveInputs :
       \E uuid \in IF Truthy(data.id) \/ _locked THEN {""}
                    ELSE {"g2"} \ IdsOf(_entries) :
         /\ save(data, uuid, 1, 2, "none")
         /\ LET entry == allocated + 1
                idx == IF Truthy(data.id) THEN findIndex(_entries, data.id) ELSE 0
            IN IF ret'.status # "ok"
                 THEN UNCHANGED heapVars
                 ELSE /\ addrs' = upsert(addrs, entry, idx)
                      /\ allocated' = entry
                      /\ held' = held \cup {entry}
  /\ heapOthers

\* getAll: [..._entries] is a new array of the same objects
GetAllObjects ==
  /\ getAll
  /\ held' = IF ret'.status = "ok" THEN held \cup objectsOf(_entries) ELSE held
  /\ UNCHANGED <<addrs, allocated>>
  /\ heapOthers

\* getById: find returns the element itself
GetByIdObjects ==
  /\ \E id \in {"g1", "u1"} : getById(id)
  /\ held' = IF ret'.status = "ok" /\ ret'.value # NoData
               THEN held \cup objectsOf(<<ret'.value.entry>>) ELSE held
  /\ UNCHANGED <<addrs, allocated>>
  /\ heapOthers

\* audit: filter makes new arrays of the same objects
AuditObjects ==
  /\ audit
  /\ held' = IF ret'.status = "ok"
               THEN held \cup objectsOf(ret'.value.weak) \cup objectsOf(ret'.value.old)
                         \cup objectsOf(ret'.value.empty)
                         \cup UNION {objectsOf(ret'.value.reused[k]) :
                                       k \in 1..Len(ret'.value.reused)}
               ELSE held
  /\ UNCHANGED <<addrs, allocated>>
  /\ heapOthers

Str_hack == <<"h", "a", "c", "k">>

\* a caller or a subscriber assigns to the password of an object it holds;
\* the object may be an element of _entries
Modify ==
  /\ \E object \in held :
       /\ _entries' = [i \in 1..Len(_entries) |->
                         IF addrs[i] = object
                           THEN [_entries[i] EXCEPT !.password = Str_hack]
                           ELSE _entries[i]]
       /\ ret' = Outcome("modify", [tag |-> "object", object |-> object], "ok", NoData)
  /\ trace' = <<>>
  /\ UNCHANGED <<_masterKey, _locked, _clipTimer, timers, clipboard, localStorage,
                 now, faults, saves>>
  /\ UNCHANGED others

\* a caller empties the array getAll or audit returned to it, a copy
ModifyArray ==
  /\ ret.op \in {"getAll", "audit"}
  /\ ret.status = "ok"
  /\ ret' = Outcome("modifyArray", NoData, "ok", NoData)
  /\ trace' = <<>>
  /\ UNCHANGED <<session, _clipTimer, timers, clipboard, localStorage, now,
                 faults, saves>>
  /\ UNCHANGED others

NextObjects ==
  \/ UnlockObjects
  \/ LockObjects
  \/ SaveObjects
  \/ GetAllObjects
  \/ GetByIdObjects
  \/ AuditObjects
  \/ Modify
  \/ ModifyArray

\* a vault of an earlier session is unlocked, read, edited and audited, and
\* the callers write to what they were given
SpecObjects == InitEdit /\ [][NextObjects]_vars

\* Calls that overlap. Callers check isCreated() before they call create;
\* a promise of SPCCrypto is settled at any time after the call that made
\* it, so the calls that wait resume in any order.
CreateCalled ==
  /\ ~isCreated
  /\ \E p \in {"abc", "abcd", "wxyz"} : createCalled(p)

CreateVerified == \E c \in calls : createVerified(c, 1)

CreateEncrypted == \E c \in calls, failed \in BOOLEAN : createEncrypted(c, 1, 2, failed)

UnlockCalled == \E p \in {"", "abcd", "wxyz"} : unlockCalled(p)

UnlockChecked == \E c \in calls : unlockChecked(c)

UnlockDecrypted == \E c \in calls : unlockDecrypted(c)

SaveCalled ==
  \E data \in SaveInputs :
    \E uuid \in IF Truthy(data.id) \/ _locked THEN {""}
                 ELSE {"g2"} \ IdsOf(_entries) :
      saveCalled(data, uuid)

RemoveCalled == \E id \in {"g1", "u1"} : removeCalled(id)

Persisted == \E c \in calls, failed \in BOOLEAN : persisted(c, 1, 2, failed)

LockCalled == \E written \in {TRUE} : lockCalled(written)

NextAsync ==
  \/ CreateCalled
  \/ CreateVerified
  \/ CreateEncrypted
  \/ UnlockCalled
  \/ UnlockChecked
  \/ UnlockDecrypted
  \/ SaveCalled
  \/ RemoveCalled
  \/ Persisted
  \/ LockCalled

\* the calls of the vault, overlapping in every way
SpecAsync == Init /\ [][NextAsync]_vars

\* a vault of an earlier session is unlocked once, and then entries are
\* saved and removed by calls that overlap; no encryption fails
UnlockOnce == _locked /\ Unlock

PersistedInTime == \E c \in calls : persisted(c, 1, 2, FALSE)

NextOverlap ==
  \/ UnlockOnce
  \/ SaveCalled
  \/ RemoveCalled
  \/ PersistedInTime

SpecOverlap == InitEdit /\ [][NextOverlap]_vars

\* crypto.getRandomValues as an ideal random source: the value of its k-th
\* call differs from the value of every other call
randomValue(k) == k

\* the blob the call that just returned had SPCCrypto.encrypt produce:
\* the one it stored under LS_VAULT or the one it returned
encryptedBy(op) ==
  IF op = "exportEncrypted"
    THEN IF ret'.status = "ok" THEN <<ret'.value.blob>> ELSE <<>>
  ELSE IF DidIn(trace', SetItem(LS_VAULT)) THEN <<localStorage'[LS_VAULT]>>
  ELSE <<>>

\* a call of the vault that drew n values, of them the salt and the nonce
\* of at most one encryption
drew(op, n) ==
  LET blobs == encryptedBy(op)
  IN /\ Len(encryptions) < MaxEncryptions
     /\ drawn' = IF blobs = <<>> THEN drawn ELSE drawn + n
     /\ encryptions' =
          encryptions \o [i \in 1..Len(blobs) |-> [op |-> op, blob |-> blobs[i]]]
     /\ UNCHANGED <<busVars, rest>>

CreateFresh ==
  /\ \E p \in {"abcd", "wxyz"} :
       create(p, randomValue(drawn + 1), randomValue(drawn + 2),
              randomValue(drawn + 3), "none")
  /\ drew("create", 3)

SaveFresh ==
  /\ \E data \in SaveInputs :
       \E uuid \in IF Truthy(data.id) \/ _locked THEN {""}
                    ELSE {"g1"} \ IdsOf(_entries) :
         save(data, uuid, randomValue(drawn + 1), randomValue(drawn + 2), "none")
  /\ drew("save", 2)

RemoveFresh ==
  /\ \E id \in {"g1", "u1"} :
       remove(id, randomValue(drawn + 1), randomValue(drawn + 2), "none")
  /\ drew("remove", 2)

ExportEncrypted ==
  /\ exportEncrypted(randomValue(drawn + 1), randomValue(drawn + 2), "none")
  /\ drew("exportEncrypted", 2)

\* no vault is stored when the page is loaded
InitFresh ==
  /\ Init
  /\ localStorage = [k \in {LS_VAULT, LS_VERIFIER} |-> Absent]

\* the vault is created, edited and exported, each encryption drawing from
\* the random source; no call fails
NextFresh ==
  \/ CreateFresh
  \/ SaveFresh
  \/ RemoveFresh
  \/ ExportEncrypted

SpecFresh == InitFresh /\ [][NextFresh]_vars

\* plaintexts and passwords the callers of SPCCrypto pass
Plaintexts ==
  { Undef, <<>>, <<"a">>, <<"a", "b">>, <<LoneSurrogate>>, <<"a", ByteOrderMark>>,
    <<ByteOrderMark, "a">> }
CryptoPasswords == {"", "abcd", "wxyz"}

\* the page is loaded without a vault; SPCCrypto keeps no state
InitCrypto ==
  /\ Init
  /\ localStorage = [k \in {LS_VAULT, LS_VERIFIER} |-> Absent]

\* each run follows one blob
CallEncrypt ==
  /\ ret.op = "load"
  /\ \E plaintext \in Plaintexts, password \in CryptoPasswords,
        salt \in 1..MaxSeed, iv \in 1..MaxSeed :
       encryptCall(plaintext, password, salt, iv)
  /\ UNCHANGED others

FlipOneBit ==
  /\ ret.op = "encrypt"
  /\ ret.status = "ok"
  /\ \E pos \in 1..Len(base64ToUint8(ret.value.blob)), bit \in 1..MaxBit :
       tamper(pos, bit)
  /\ UNCHANGED others

\* the lengths blobs are cut to: one byte, salt and nonce alone, with one
\* byte more, and one byte short of a whole tag
TruncatedLengths ==
  { 1, SALT_LENGTH + IV_LENGTH, SALT_LENGTH + IV_LENGTH + 1,
    SALT_LENGTH + IV_LENGTH + TAG_LENGTH - 1 }

Truncate == (\E n \in TruncatedLengths : truncate(n)) /\ UNCHANGED others

CallDecrypt ==
  (\E password \in CryptoPasswords : decryptCall(password)) /\ UNCHANGED others

\* blobs are encrypted, possibly tampered with or cut short, and decrypted
NextCrypto ==
  \/ CallEncrypt
  \/ FlipOneBit
  \/ Truncate
  \/ CallDecrypt

SpecCrypto == InitCrypto /\ [][NextCrypto]_vars

\* the passwords scored: a start, then the characters of a pattern over
\* and over up to a length around the thresholds 6, 8, 14 and 20
StrengthStarts ==
  { <<>>, <<"1", "2", "3">>, <<"A", "b", "c">>, <<"0", "0", "0">>,
    <<"P", "a", "s", "s", "w", "o", "r", "d">>, <<"a", "d", "m", "i", "n">>,
    <<"!", "!", "!">> }
StrengthPatterns ==
  { <<"a">>, <<"x", "y">>, <<"x", "Y">>, <<"4", "5">>, <<"!", "@">>, <<"x", "4">>,
    <<"x", "!">>, <<"x", "Y", "4">>, <<"x", "Y", "4", "!">>, <<"x", "x", "x", "Y", "4", "!">> }
StrengthLengths == {1, 5, 6, 7, 8, 13, 14, 19, 20, 21}

StrengthPassword(start, pattern, len) ==
  [i \in 1..len |->
     IF i <= Len(start) THEN start[i]
     ELSE pattern[((i - Len(start) - 1) % Len(pattern)) + 1]]

StrengthPasswords ==
  {Undef, <<>>} \cup
  { StrengthPassword(start, pattern, len) :
      start \in StrengthStarts, pattern \in StrengthPatterns, len \in StrengthLengths }

CallEvaluateStrength ==
  /\ ret.op = "load"
  /\ \E password \in StrengthPasswords : evaluateStrengthCall(password)
  /\ UNCHANGED others

\* a password is scored
NextStrength == CallEvaluateStrength

SpecStrength == InitCrypto /\ [][NextStrength]_vars

\* the options callers pass to generatePassword: every property given,
\* none, the length alone, or all but the length
GenerateOptionNames ==
  {"length", "lowercase", "uppercase", "digits", "symbols", "exclude"}
GenerateOptions ==
  LET full == [length : {0, 1, 3}, lowercase : BOOLEAN, uppercase : BOOLEAN,
               digits : BOOLEAN, symbols : BOOLEAN,
               exclude : {<<>>, Digits, <<"a", "B", "!">>}]
      given == {GenerateOptionNames, {}, {"length"}, GenerateOptionNames \ {"length"}}
  IN { [name \in names |-> o[name]] : o \in full, names \in given }

\* what crypto.getRandomValues may write into a Uint32Array of n words: every
\* value of a word in the first, the words that follow at a fixed distance
RandomWords(n) ==
  { [i \in 1..n |-> (first + (i - 1) * step) % pow2(MaxWordBits)] :
      first \in WordValues, step \in {1, 37} }

CallGeneratePassword ==
  /\ ret.op = "load"
  /\ \E options \in GenerateOptions :
       \E randomValues \in RandomWords(OptionOr(options, "length", DEFAULT_LENGTH)) :
         generatePasswordCall(options, randomValues)
  /\ UNCHANGED others

\* a password is generated
NextGenerate == CallGeneratePassword

SpecGenerate == InitCrypto /\ [][NextGenerate]_vars

\* what the pages subscribe: any function to VAULT_LOCKED, one to ERROR
Subscriptions ==
  ({"VAULT_LOCKED"} \X (Functions \cup {Undefined})) \cup {<<"ERROR", "quiet">>}

BusUnchanged ==
  UNCHANGED <<session, _clipTimer, timers, clipboard, localStorage, now, faults, saves, rngVars, rest>>

BusOn ==
  /\ \E s \in Subscriptions : on(s[1], Subscriber(s[2], FALSE))
  /\ BusUnchanged

BusOnce ==
  /\ \E s \in Subscriptions :
       s[2] # "remover" /\ once(s[1], Subscriber(s[2], FALSE))
  /\ BusUnchanged

BusOff ==
  /\ \E event \in BusEvents :
       \E i \in 1..Len(_listeners[event]) : off(event, _listeners[event][i])
  /\ BusUnchanged

BusEmit ==
  /\ \E event \in BusEvents : emit(event)
  /\ BusUnchanged

\* functions subscribe and unsubscribe, and events are published
NextBus ==
  \/ BusOn
  \/ BusOnce
  \/ BusOff
  \/ BusEmit

SpecBus == InitCrypto /\ [][NextBus]_vars

\* the byte strings checkVerifier may hand to timingSafeEqual
ByteStrings == UNION { [1..n -> ByteValues] : n \in 0..MaxCompared }

CallTimingSafeEqual ==
  /\ ret.op = "load"
  /\ \E a \in ByteStrings, b \in ByteStrings : timingSafeEqualCall(a, b)
  /\ UNCHANGED others

\* two byte strings are compared
NextCompare == CallTimingSafeEqual

SpecCompare == InitCrypto /\ [][NextCompare]_vars

\* passwords the callers of createVerifier and checkVerifier pass
VerifierPasswords ==
  { Undef, <<>>, <<"a">>, <<"b">>, <<"a", "b">>, <<LoneSurrogate>>,
    <<ReplacementChar>> }

CallCreateVerifier ==
  /\ ret.op = "load"
  /\ \E password \in VerifierPasswords, salt \in 1..MaxSeed :
       createVerifierCall(password, salt)
  /\ UNCHANGED others

DamageVerifier ==
  /\ \E how \in {"cut", "text", "null"},
        n \in {0, VERIFIER_SALT_LENGTH - 1, VERIFIER_SALT_LENGTH,
               VERIFIER_SALT_LENGTH + 1,
               VERIFIER_SALT_LENGTH + DIGEST_LENGTH - 1} :
       damageVerifier(how, n)
  /\ UNCHANGED others

CallCheckVerifier ==
  (\E password \in VerifierPasswords : checkVerifierCall(password))
  /\ UNCHANGED others

\* verifiers are created, possibly damaged, and checked
NextVerifier ==
  \/ CallCreateVerifier
  \/ DamageVerifier
  \/ CallCheckVerifier

SpecVerifier == InitCrypto /\ [][NextVerifier]_vars


\* ------------------------------------------------------------------ claims
\* what the formulas below read from the persisted data
Blob == localStorage[LS_VAULT]
Verifier == localStorage[LS_VERIFIER]

\* the plaintext sealed in the persisted blob, and the password it is
\* sealed under
BlobPlain == Blob.bytes.ciphertext.plaintext
BlobPassword == Blob.bytes.ciphertext.key.password

Did(effect) == DidIn(trace, effect)

ErrorEvent == Emit("ERROR", [tag |-> "error"])

CrudOps == {"getAll", "getById", "save", "remove", "search", "getGroups"}

\* C1: while the vault is locked, each of getAll, getById, save, remove,
\* search and getGroups fails with VaultLocked, leaves the session and the
\* persisted verifier and blob unchanged, and publishes no notification.
C1_LockedCrudFails ==
  [][ (_locked /\ ret'.op \in CrudOps) =>
        /\ ret'.status = "VaultLocked"
        /\ UNCHANGED <<session, localStorage>>
        /\ Emitted(trace') = <<>> ]_vars

\* a remove was refused on an existing, locked vault
C1_Witness ==
  /\ _locked
  /\ Blob # Absent
  /\ ret.op = "remove"
  /\ ret.status = "VaultLocked"


\* the master password of the persisted vault: the blob, written by create
\* or persist, is sealed under it and the verifier, if any, accepts it
CorrectPassword(p) ==
  /\ Truthy(p)
  /\ Blob # Absent
  /\ BlobPassword = p
  /\ BlobPlain.text = "json"
  /\ Verifier # Absent => checkVerifier(p, Verifier)

\* C2: lock() leaves the session locked, and getAll() fails with VaultLocked
\* as long as it is; only a successful unlock or create unlocks it; an unlock
\* with the master password of the persisted vault succeeds and makes the
\* entries, which getAll() then returns, exactly those of the persisted blob.
C2_LockThenUnlockRestores ==
  [][ /\ ret'.op = "lock" => _locked'
      /\ (_locked /\ ~_locked') => (ret'.op \in {"unlock", "create"} /\ ret'.status = "ok")
      /\ (_locked /\ ret'.op = "getAll") => ret'.status = "VaultLocked"
      /\ (_locked /\ ret'.op = "unlock" /\ CorrectPassword(ret'.arg.password)) =>
           /\ ret'.status = "ok"
           /\ ~_locked'
           /\ _entries' = BlobPlain.items
      /\ (~_locked /\ ret'.op = "getAll") =>
           /\ ret'.status = "ok"
           /\ ret'.value = EntriesValue(_entries) ]_vars

\* the end of create("abcd"), save(bank), lock(), unlock("abcd"): the one
\* entry saved in this session is back, with a generated identifier
C2_Witness ==
  /\ ret.op = "unlock"
  /\ ret.status = "ok"
  /\ ret.arg.password = "abcd"
  /\ faults = 0
  /\ Verifier # Absent
  /\ Len(_entries) = 1
  /\ _entries[1].name = Str_bank
  /\ _entries[1].password = Str_pass
  /\ _entries[1].id \in GenIds
  /\ _entries[1].createdAt = StartTime

\* C3: when the encryption or the write inside save or remove fails, an
\* ERROR notification is published, the call does not throw, and the
\* entries in memory equal the entries last persisted.
C3_FailedPersistKeepsMemory ==
  [][ (ret'.op \in {"save", "remove"} /\ faults' # faults /\ Blob # Absent) =>
        /\ DidIn(trace', ErrorEvent)
        /\ ret'.status = "ok"
        /\ _entries' = BlobPlain.items ]_vars


\* the verifier v was computed from the password p
VerifierOf(v, p) ==
  /\ v # Absent
  /\ v.bytes.hash = Digest(<<v.bytes.salt, Digest(p)>>)

\* C4 as stated: when a verifier is persisted and the password passed to
\* unlock does not match it, unlock fails with WrongPassword without reading
\* or decrypting the blob, and changes nothing and publishes nothing.
C4_AnyMismatchIsWrongPassword ==
  [][ (/\ ret'.op = "unlock"
       /\ ret'.arg.password # Undefined
       /\ Verifier # Absent
       /\ ~VerifierOf(Verifier, ret'.arg.password)) =>
        /\ ret'.status = "WrongPassword"
        /\ ~DidIn(trace', GetItem(LS_VAULT))
        /\ ~DidIn(trace', Decrypt(LS_VAULT))
        /\ UNCHANGED <<session, localStorage>>
        /\ Emitted(trace') = <<>> ]_vars

\* C4, amended: the same for a non-empty password that does not match the
\* persisted verifier; an empty password is refused before the verifier is
\* read, with the error of a missing input, and equally changes nothing.
C4_WrongPasswordFailsFast ==
  [][ (ret'.op = "unlock" /\ Verifier # Absent
       /\ ~VerifierOf(Verifier, ret'.arg.password)) =>
        /\ ret'.status = IF Truthy(ret'.arg.password) THEN "WrongPassword"
                                                      ELSE "InvalidInput"
        /\ ~DidIn(trace', GetItem(LS_VAULT))
        /\ ~DidIn(trace', Decrypt(LS_VAULT))
        /\ UNCHANGED <<session, localStorage>>
        /\ Emitted(trace') = <<>> ]_vars

\* a well-formed password was refused by the verifier of an unlocked vault,
\* which stayed unlocked with its entries
C4_Witness ==
  /\ ret.op = "unlock"
  /\ ret.status = "WrongPassword"
  /\ ret.arg.password = "wxyz"
  /\ VerifierOf(Verifier, "abcd")
  /\ ~_locked
  /\ Len(_entries) = 2

\* C5: when unlock gets to decrypt the blob (the password is not empty and
\* the verifier, if any, accepts it) and the blob does not open under the
\* password or its plaintext does not parse, unlock fails with
\* WrongPasswordOrCorruptData, the session is unchanged (a locked one stays
\* locked without key and entries) and nothing is published.
C5_DecryptFailureIsAmbiguous ==
  [][ (/\ ret'.op = "unlock"
       /\ Truthy(ret'.arg.password)
       /\ Verifier # Absent => VerifierOf(Verifier, ret'.arg.password)
       /\ Blob # Absent
       /\ BlobPassword # ret'.arg.password \/ BlobPlain.text # "json") =>
        /\ ret'.status = "WrongPasswordOrCorruptData"
        /\ UNCHANGED session
        /\ _locked => (_locked' /\ _masterKey' = Undefined /\ _entries' = <<>>)
        /\ Emitted(trace') = <<>> ]_vars

\* the verifier accepted the password but the blob is sealed under another
C5_Witness ==
  /\ ret.op = "unlock"
  /\ ret.status = "WrongPasswordOrCorruptData"
  /\ _locked
  /\ VerifierOf(Verifier, ret.arg.password)
  /\ BlobPassword # ret.arg.password

\* C6: create with an absent password or one shorter than 4 characters
\* fails with WeakMasterPassword before anything is written: the persisted
\* data and the session are unchanged and the call has no effect at all.
C6_WeakPasswordRejected ==
  [][ (ret'.op = "create"
       /\ (~Truthy(ret'.arg.password) \/ Len(ret'.arg.password) < 4)) =>
        /\ ret'.status = "WeakMasterPassword"
        /\ UNCHANGED <<session, localStorage>>
        /\ trace' = <<>> ]_vars

\* a password of three characters was refused
C6_Witness ==
  /\ ret.op = "create"
  /\ ret.arg.password = "abc"
  /\ ret.status = "WeakMasterPassword"
  /\ ~isCreated

\* C7: a successful create, called when no vault is persisted, ends with a
\* verifier checkVerifier accepts for the password, a blob that decrypts
\* under it to the empty entry array, the session unlocked with no entries,
\* and one VAULT_UNLOCKED notification published after the two writes.
C7_CreateEstablishesVault ==
  [][ (~isCreated /\ ret'.op = "create" /\ ret'.status = "ok") =>
        LET p == ret'.arg.password IN
        /\ localStorage'[LS_VERIFIER] # Absent
        /\ checkVerifier(p, localStorage'[LS_VERIFIER])
        /\ decrypt(localStorage'[LS_VAULT], p).ok
        /\ JSON_parse(decrypt(localStorage'[LS_VAULT], p).value)
             = [ok |-> TRUE, value |-> <<>>, error |-> ""]
        /\ ~_locked'
        /\ _entries' = <<>>
        /\ _masterKey' = p
        /\ trace' = <<SetItem(LS_VERIFIER), SetItem(LS_VAULT),
                      Emit("VAULT_UNLOCKED", NoData)>> ]_vars

\* a vault was created
C7_Witness ==
  /\ ret.op = "create"
  /\ ret.status = "ok"
  /\ ret.arg.password = "wxyz"
  /\ VerifierOf(Verifier, "wxyz")
  /\ BlobPassword = "wxyz"
  /\ ~_locked

\* C8: lock() on an unlocked session discards the key and the entries,
\* leaves no clipboard timer pending, locks the session, publishes exactly
\* one VAULT_LOCKED and does not touch the persisted data.
C8_LockClearsSession ==
  [][ (~_locked /\ ret'.op = "lock" /\ now' = now) =>
        /\ _masterKey' = Undefined
        /\ _entries' = <<>>
        /\ _clipTimer' = 0
        /\ _clipTimer # 0 => DidIn(trace', Effect("clearTimeout", "", NoData))
        /\ _locked'
        /\ Emitted(trace') = <<Emit("VAULT_LOCKED", NoData)>>
        /\ UNCHANGED localStorage ]_vars

\* a lock cancelled a pending clipboard timer
C8_Witness ==
  /\ ret.op = "lock"
  /\ Did(Effect("clearTimeout", "", NoData))
  /\ _locked
  /\ _clipTimer = 0

\* C9: lock() on a locked session succeeds and leaves the session and the
\* persisted data as they were.
C9_LockIdempotent ==
  [][ (_locked /\ ret'.op = "lock") =>
        /\ ret'.status = "ok"
        /\ UNCHANGED <<session, localStorage>> ]_vars

\* a lock of a vault that no password in use opens: the session was locked
\* when it was called
C9_Witness ==
  /\ ret.op = "lock"
  /\ _locked
  /\ Verifier = Absent
  /\ Blob # Absent
  /\ BlobPlain.text = "garbage"

\* C10: a save without an identifier gives the entry a generated, non-empty
\* identifier and puts it in front of the others, which keep their order; a
\* save under the identifier of an existing entry replaces that entry where
\* it is, the others and the length unchanged.
C10_SaveUpserts ==
  [][ (~_locked /\ ret'.op = "save" /\ ret'.status = "ok") =>
        LET id == ret'.arg.id
            e == ret'.value.entry
        IN /\ ~Truthy(id) =>
                /\ e.id # ""
                /\ _entries' = <<e>> \o _entries
           /\ (Truthy(id) /\ id \in IdsOf(_entries)) =>
                /\ e.id = id
                /\ Len(_entries') = Len(_entries)
                /\ \E i \in 1..Len(_entries) :
                     /\ _entries[i].id = id
                     /\ _entries' = [_entries EXCEPT ![i] = e] ]_vars

\* an entry was put in front of two others, then the last one was replaced
C10_Witness ==
  /\ ret.op = "save"
  /\ ret.arg.id = "u1"
  /\ saves = 2
  /\ Len(_entries) = 3
  /\ _entries[1].id = "g2"
  /\ _entries[2] = OldEntries[1]
  /\ _entries[3] = ret.value.entry
  /\ _entries[3].updatedAt = StartTime


\* the persisted blob b opens under the password p to the entries es
OpensTo(b, p, es) ==
  /\ b # Absent
  /\ b.bytes.ciphertext.key.password = p
  /\ b.bytes.ciphertext.plaintext = [text |-> "json", items |-> es]

\* C11: a save under the identifier of an existing entry keeps its
\* createdAt, and sets pwdChangedAt to the current time if the stored
\* password differs from the one stored before, and keeps it otherwise.
C11_PwdChangedAtFollowsPassword ==
  [][ (/\ ~_locked /\ ret'.op = "save" /\ ret'.status = "ok"
       /\ ret'.arg.id \in IdsOf(_entries)) =>
        LET before == _entries[CHOOSE i \in 1..Len(_entries) :
                                 _entries[i].id = ret'.arg.id]
            after == ret'.value.entry
        IN /\ after.createdAt = before.createdAt
           /\ after.pwdChangedAt = IF after.password # before.password
                                     THEN now' ELSE before.pwdChangedAt ]_vars

\* C12: when save or remove publishes VAULT_ENTRY_SAVED or
\* VAULT_ENTRY_DELETED, the persisted blob opens under the master password
\* to exactly the entries in memory.
C12_PersistedWhenNotified ==
  [][ (\E i \in 1..Len(trace') :
         /\ trace'[i].kind = "emit"
         /\ trace'[i].name \in {"VAULT_ENTRY_SAVED", "VAULT_ENTRY_DELETED"}) =>
        OpensTo(localStorage'[LS_VAULT], _masterKey', _entries') ]_vars

\* C13: remove(id) on an unlocked session leaves exactly the entries with
\* another identifier, in their order (all of them when no entry has the
\* identifier); it then writes the set, which the blob holds afterwards
\* unless the write failed, and publishes VAULT_ENTRY_DELETED with the id.
C13_RemoveFilters ==
  [][ (~_locked /\ ret'.op = "remove") =>
        /\ ret'.status = "ok"
        /\ \E keep \in SUBSET (1..Len(_entries)) :
             /\ keep = {i \in 1..Len(_entries) : _entries[i].id # ret'.arg.id}
             /\ Len(_entries') = Cardinality(keep)
             /\ \A i \in keep :
                  _entries'[Cardinality({j \in keep : j <= i})] = _entries[i]
        /\ ~(ret'.arg.id \in IdsOf(_entries)) => _entries' = _entries
        /\ Emitted(trace') # <<>>
        /\ Emitted(trace')[Len(Emitted(trace'))]
             = Emit("VAULT_ENTRY_DELETED", IdArg(ret'.arg.id))
        /\ faults' = faults =>
             /\ trace' = <<SetItem(LS_VAULT),
                           Emit("VAULT_ENTRY_DELETED", IdArg(ret'.arg.id))>>
             /\ OpensTo(localStorage'[LS_VAULT], _masterKey', _entries') ]_vars

\* the first of two entries was removed and the other one persisted
C13_Witness ==
  /\ ret.op = "remove"
  /\ ret.status = "ok"
  /\ ret.arg.id = "g1"
  /\ faults = 0
  /\ saves = 0
  /\ _entries = <<OldEntries[2]>>
  /\ OpensTo(Blob, "abcd", <<OldEntries[2]>>)

\* C14: audit() fails with VaultLocked on a locked session; on an unlocked
\* session without entries it returns total 0, score 100, grade A and empty
\* weak, reused, old and empty lists.
C14_AuditLockedAndEmpty ==
  [][ ret'.op = "audit" =>
        /\ _locked => ret'.status = "VaultLocked"
        /\ (~_locked /\ _entries = <<>>) =>
             /\ ret'.status = "ok"
             /\ ret'.value = [tag |-> "report", total |-> 0, weak |-> <<>>,
                              reused |-> <<>>, old |-> <<>>, empty |-> <<>>,
                              score |-> 100, grade |-> "A"] ]_vars

\* an empty vault was audited
C14_Witness ==
  /\ ret.op = "audit"
  /\ ret.status = "ok"
  /\ ~_locked
  /\ _entries = <<>>
  /\ ret.value.score = 100

\* C15 as stated: the weak list of audit() holds exactly the entries whose
\* password evaluateStrength scores at most 1, whatever the password.
C15_WeakIsScoreAtMostOne ==
  [][ (ret'.op = "audit" /\ ret'.status = "ok") =>
        ret'.value.weak =
          SelectSeq(_entries, LAMBDA e : evaluateStrength(e.password).score <= 1)
    ]_vars

\* C15, amended: the weak list holds exactly the entries with a non-empty
\* password that evaluateStrength scores at most 1; an entry with an empty
\* password is in the empty list and not in the weak list.
C15_WeakIsNonEmptyScoreAtMostOne ==
  [][ (ret'.op = "audit" /\ ret'.status = "ok") =>
        /\ ret'.value.weak =
             SelectSeq(_entries, LAMBDA e :
               e.password # <<>> /\ evaluateStrength(e.password).score <= 1)
        /\ ret'.value.empty = SelectSeq(_entries, LAMBDA e : e.password = <<>>)
    ]_vars

\* a vault with an empty, a weak and a strong password was audited: the weak
\* list holds the weak one alone
C15_Witness ==
  /\ ret.op = "audit"
  /\ ret.status = "ok"
  /\ {"g1", "e1", "e4"} \subseteq IdsOf(_entries)
  /\ IdsOf(ret.value.weak) = {"e1"}
  /\ IdsOf(ret.value.empty) = {"g1"}

\* C16: audit() returns, as reused, exactly the groups of two or more
\* entries of the partition of the entries with a password by password:
\* one cluster for every password two or more entries share, holding those
\* entries, and no other cluster.
C16_ReusedIsExactPartition ==
  [][ (ret'.op = "audit" /\ ~_locked /\ _entries # <<>>) =>
        /\ ret'.status = "ok"
        /\ LET sharing(pw) == SelectSeq(_entries, LAMBDA e : e.password = pw)
               shared == {pw \in {_entries[i].password : i \in 1..Len(_entries)} :
                            pw # <<>> /\ Len(sharing(pw)) >= 2}
               reused == ret'.value.reused
           IN /\ {reused[i] : i \in 1..Len(reused)} = {sharing(pw) : pw \in shared}
              /\ Len(reused) = Cardinality(shared) ]_vars

\* the later of two times
Later(a, b) == IF a >= b THEN a ELSE b

\* C17: the old list of the report audit() returns holds exactly the entries
\* with a non-empty password whose pwdChangedAt and createdAt are both more
\* than 90 days before the time of the call.
C17_OldIsOverNinetyDays ==
  [][ (ret'.op = "audit" /\ ret'.status = "ok" /\ now' = now) =>
        ret'.value.old =
          SelectSeq(_entries, LAMBDA e :
            /\ e.password # <<>>
            /\ now - Later(e.pwdChangedAt, e.createdAt) > 90 * 24 * 60 * 60)
    ]_vars

\* after the clock advanced, the entry that was exactly 90 days old is old;
\* the one with an old createdAt and a recent pwdChangedAt is not, nor is
\* the old one without a password
C17_Witness ==
  /\ ret.op = "audit"
  /\ ret.status = "ok"
  /\ now > StartTime
  /\ {"g1", "u1", "e4"} \subseteq IdsOf(_entries)
  /\ IdsOf(ret.value.old) = {"u1"}

\* C18: a report of audit() over a vault that is not empty has the score
\* max(0, round(100 - 100 * issues / total)) with issues = |weak| +
\* 2 |reused| + 0.5 |old| + |empty|, an integer in 0..100, and the grade A
\* from 90, B from 70, C from 50, D from 30 and F below.
C18_ScoreAndGrade ==
  [][ (ret'.op = "audit" /\ ret'.status = "ok" /\ _entries # <<>>) =>
        LET r == ret'.value
            t == Len(_entries)
            issues2 == 2 * Len(r.weak) + 4 * Len(r.reused) + Len(r.old)
                         + 2 * Len(r.empty)
            \* 2 t (100 - 100 issues / total)
            x2t == 200 * t - 100 * issues2
        IN /\ r.total = t
           /\ r.score \in 0..100
           /\ \/ r.score = 0 /\ x2t < t
              \/ r.score > 0 /\ 2 * t * r.score - t <= x2t
                             /\ x2t < 2 * t * r.score + t
           /\ r.grade = CASE r.score >= 90 -> "A" [] r.score \in 70..89 -> "B"
                          [] r.score \in 50..69 -> "C" [] r.score \in 30..49 -> "D"
                          [] OTHER -> "F" ]_vars

\* a report whose score was rounded up from a half
C18_Witness ==
  /\ ret.op = "audit"
  /\ ret.status = "ok"
  /\ ret.value.total = 4
  /\ ret.value.score > 0
  /\ LET r == ret.value
         issues2 == 2 * Len(r.weak) + 4 * Len(r.reused) + Len(r.old)
                      + 2 * Len(r.empty)
     IN 2 * 4 * r.score - 4 = 200 * 4 - 100 * issues2


RoundTrips(text) ==
  /\ \A i \in 1..Len(text) : text[i] # LoneSurrogate
  /\ text # <<>> => text[1] # ByteOrderMark

C20_TamperDetected ==
  [][ (/\ ret.op = "tamper"
       /\ ret'.op = "decrypt" /\ ret'.arg.password = ret.arg.password) =>
        ret'.status = "AuthenticationFailed" ]_vars

\* a blob with a bit of its tag flipped was refused under the password it
\* was encrypted with
C20_Witness ==
  /\ ret.op = "decrypt"
  /\ ret.status = "AuthenticationFailed"
  /\ \E i \in 1..Len(ret.arg.cipherBundle.bytes) :
       LET b == ret.arg.cipherBundle.bytes[i]
       IN /\ b.flip # 0
          /\ b.kind = "tag"
          /\ b.v.key.password = ret.arg.password

\* salt, nonce and derived key of a recorded encryption
SaltOf(e) == base64ToUint8(e.blob).salt
NonceOf(e) == base64ToUint8(e.blob).iv
KeyOf(e) == base64ToUint8(e.blob).ciphertext.key

\* C21: with crypto.getRandomValues an ideal source, every encryption of
\* create, save, remove and exportEncrypted seals under a salt and a nonce
\* no other encryption used, so no salt-and-nonce pair and no nonce under
\* one derived key occurs twice, and two encryptions of the same plaintext
\* under the same password give different blobs.
C21_FreshSaltAndNonce ==
  \A i, j \in 1..Len(encryptions) :
    i # j =>
      LET a == encryptions[i]
          b == encryptions[j]
      IN /\ SaltOf(a) # SaltOf(b)
         /\ NonceOf(a) # NonceOf(b)
         /\ <<SaltOf(a), NonceOf(a)>> # <<SaltOf(b), NonceOf(b)>>
         /\ <<KeyOf(a), NonceOf(a)>> # <<KeyOf(b), NonceOf(b)>>
         /\ a.blob # b.blob

\* create, save, remove and exportEncrypted each encrypted, and two of the
\* encryptions sealed the same plaintext under the same password
C21_Witness ==
  /\ {encryptions[i].op : i \in 1..Len(encryptions)} =
       {"create", "save", "remove", "exportEncrypted"}
  /\ \E i, j \in 1..Len(encryptions) :
       /\ i # j
       /\ KeyOf(encryptions[i]).password = KeyOf(encryptions[j]).password
       /\ base64ToUint8(encryptions[i].blob).ciphertext.plaintext =
            base64ToUint8(encryptions[j].blob).ciphertext.plaintext

\* C22 as stated: decrypt refuses every blob shorter than salt, nonce and
\* tag together (16 + 12 + 16 bytes) by its length check, before a key is
\* derived, and lets a blob of exactly that length through to the
\* authenticated decryption.
C22_ShorterThanTagIsTooShort ==
  [][ (/\ ret'.op = "decrypt"
       /\ Truthy(ret'.arg.password)) =>
        LET n == Len(base64ToUint8(ret'.arg.cipherBundle))
        IN /\ n < SALT_LENGTH + IV_LENGTH + TAG_LENGTH => ret'.status = "TooShort"
           /\ n = SALT_LENGTH + IV_LENGTH + TAG_LENGTH => ret'.status # "TooShort" ]_vars

\* C23 as stated: checkVerifier(P, createVerifier(P)) is true for every
\* password P, checkVerifier(P2, createVerifier(P1)) is false for all
\* passwords P1 and P2 that differ, and checkVerifier returns false
\* without an error for a damaged verifier.
C23_VerifierTellsPasswordsApart ==
  [][ ret'.op = "checkVerifier" =>
        /\ ret'.status = "ok"
        /\ (ret.op = "createVerifier" /\ ret.arg.password # Undef
               /\ ret'.arg.password # Undef) =>
             (ret'.value.value <=> ret'.arg.password = ret.arg.password)
        /\ ret.op = "damageVerifier" => ~ret'.value.value ]_vars

\* C23, amended: checkVerifier(P, createVerifier(P)) is true for every
\* password P, checkVerifier(P2, createVerifier(P1)) is false for all
\* passwords P1 and P2 whose UTF-8 encodings differ and true when the
\* encodings are equal, and checkVerifier returns false without an error
\* for a verifier that was cut short, is not Base64 or is null.
C23_VerifierTellsEncodingsApart ==
  [][ ret'.op = "checkVerifier" =>
        /\ ret'.status = "ok"
        /\ ret.op = "createVerifier" =>
             (ret'.value.value <=> encode(ret'.arg.password) = encode(ret.arg.password))
        /\ ret.op = "damageVerifier" => ~ret'.value.value ]_vars

\* a verifier was accepted under its password, one refused under another
\* password, and a verifier cut within its hash refused under its password
C23_Witness ==
  /\ ret.op = "checkVerifier"
  /\ ret.arg.password = <<"a", "b">>
  /\ ret.value.value
  /\ Len(base64ToUint8(ret.arg.verifier)) = VERIFIER_SALT_LENGTH + DIGEST_LENGTH

\* C24: timingSafeEqual returns true exactly when the two byte strings
\* have the same length and the same byte at every position, and on
\* strings of equal length it goes through its loop once for every
\* position, wherever the first difference is.
C24_ComparesEveryPosition ==
  ret.op = "timingSafeEqual" =>
    LET a == ret.arg.a
        b == ret.arg.b
    IN /\ ret.value.value <=>
            (Len(a) = Len(b) /\ \A i \in 1..Len(a) : a[i] = b[i])
       /\ ret.value.value <=> timingSafeEqual(a, b)
       /\ Len(a) = Len(b) => ret.value.steps = Len(a)

\* two strings of three bytes that differ in the first byte alone were
\* compared
C24_Witness ==
  /\ ret.op = "timingSafeEqual"
  /\ Len(ret.arg.a) = 3
  /\ Len(ret.arg.b) = 3
  /\ ret.arg.a[1] # ret.arg.b[1]
  /\ \A i \in 2..3 : ret.arg.a[i] = ret.arg.b[i]
  /\ ~ret.value.value
  /\ ret.value.steps = 3

\* the parts of the rule of the score: points for the length, the character
\* classes present, a run of three, a weak prefix
LengthPoints(t) ==
  Cardinality({n \in {8, 14, 20} : Len(t) >= n})
ClassesOf(t) ==
  { c \in {"lower", "upper", "digit", "symbol"} :
      \E i \in 1..Len(t) :
        CASE c = "lower" -> IsLower(t[i])
          [] c = "upper" -> IsUpper(t[i])
          [] c = "digit" -> IsDigit(t[i])
          [] OTHER -> IsSymbol(t[i]) }
RunOfThree(t) ==
  \E i \in 1..Len(t) : i + 2 <= Len(t) /\ t[i + 1] = t[i] /\ t[i + 2] = t[i]
WeakPrefixed(t) ==
  \E k \in 1..Len(weakPatterns) : startsWith(t, weakPatterns[k].prefix, TRUE)

\* the score by the rule, given whether the penalty of 2 applies
RuleScore(t, twoOff) ==
  LET classes == Cardinality(ClassesOf(t))
      raw == LengthPoints(t) + (IF classes > 1 THEN classes - 1 ELSE 0)
               - (IF twoOff THEN 2 ELSE 0)
               - (IF RunOfThree(t) THEN 1 ELSE 0)
               - (IF WeakPrefixed(t) THEN 1 ELSE 0)
      short == IF Len(t) < 6 /\ raw > 1 THEN 1 ELSE raw
  IN IF short < 0 THEN 0 ELSE IF short > 4 THEN 4 ELSE short

\* the password scored, the empty string for undefined
Scored == IF ret.arg.password = Undef THEN <<>> ELSE ret.arg.password

\* C25 as stated: the score is the one of the rule with the penalty of 2
\* for a password made of a single character class.
C25_ScoreBySingleClassRule ==
  ret.op = "evaluateStrength" =>
    ret.value.score = RuleScore(Scored, Cardinality(ClassesOf(Scored)) = 1)

\* C25, amended: the score is the one of the rule with the penalty of 2
\* for a password made of digits only or of letters only, lower and upper
\* case together included, and without it for a password of symbols only.
C25_ScoreByDigitsOrLettersRule ==
  ret.op = "evaluateStrength" =>
    ret.value.score =
      RuleScore(Scored,
                /\ Scored # <<>>
                /\ \/ ClassesOf(Scored) = {"digit"}
                   \/ ClassesOf(Scored) \subseteq {"lower", "upper"})

\* a password of 14 letters in both cases, with a weak prefix, was scored
C25_Witness ==
  /\ ret.op = "evaluateStrength"
  /\ Len(ret.arg.password) = 14
  /\ ClassesOf(ret.arg.password) = {"lower", "upper"}
  /\ WeakPrefixed(ret.arg.password)
  /\ ret.value.score = 0

\* C26: the score is an integer from 0 to 4; the empty password scores 0;
\* a password shorter than 6 characters, and the password "aaaaaa", scores
\* at most 1; a password of 20 characters with a lowercase letter, an
\* uppercase letter, a digit and a symbol scores 4 whatever its penalties.
C26_ScoreBounds ==
  ret.op = "evaluateStrength" =>
    /\ ret.value.score \in 0..4
    /\ Scored = <<>> => ret.value.score = 0
    /\ Len(Scored) < 6 => ret.value.score <= 1
    /\ Scored = <<"a", "a", "a", "a", "a", "a">> => ret.value.score <= 1
    /\ (Len(Scored) = 20 /\ ClassesOf(Scored) = {"lower", "upper", "digit", "symbol"})
         => ret.value.score = 4

\* a password of 20 characters of all four classes, with a run of three
\* and a weak prefix, scored 4
C26_Witness ==
  /\ ret.op = "evaluateStrength"
  /\ Len(ret.arg.password) = 20
  /\ ClassesOf(ret.arg.password) = {"lower", "upper", "digit", "symbol"}
  /\ RunOfThree(ret.arg.password)
  /\ WeakPrefixed(ret.arg.password)
  /\ ret.value.score = 4

\* the characters generatePassword may use under these options: those of
\* the enabled classes that are not excluded
AllowedChars(options) ==
  LET enabled(name, default) == IF name \in DOMAIN options THEN options[name] ELSE default
      class(name, default, chars) ==
        IF enabled(name, default) THEN {chars[i] : i \in 1..Len(chars)} ELSE {}
      excluded == IF "exclude" \in DOMAIN options
                    THEN {options.exclude[i] : i \in 1..Len(options.exclude)}
                    ELSE {}
  IN (class("lowercase", TRUE, LowerLetters) \cup class("uppercase", TRUE, UpperLetters)
        \cup class("digits", TRUE, Digits) \cup class("symbols", FALSE, Symbols))
       \ excluded

\* C27: generatePassword returns a string of options.length characters, 20
\* when no length is given, each one a character of an enabled class
\* (lowercase, uppercase and digits unless told otherwise) that is not
\* excluded; when no such character exists it fails with InvalidInput and
\* returns nothing.
C27_GeneratedFromCharset ==
  ret.op = "generatePassword" =>
    LET options == ret.arg.options
        length == IF "length" \in DOMAIN options THEN options.length ELSE 20
    IN IF AllowedChars(options) = {}
         THEN ret.status = "InvalidInput" /\ ret.value = NoData
         ELSE /\ ret.status = "ok"
              /\ Len(ret.value.text) = length
              /\ \A i \in 1..length : ret.value.text[i] \in AllowedChars(options)

\* a password of 20 characters was generated without options, and it has a
\* lowercase letter, an uppercase letter and a digit
C27_Witness ==
  /\ ret.op = "generatePassword"
  /\ DOMAIN ret.arg.options = {}
  /\ ret.status = "ok"
  /\ Len(ret.value.text) = 20
  /\ \E i, j, k \in 1..20 :
       /\ IsLower(ret.value.text[i])
       /\ IsUpper(ret.value.text[j])
       /\ IsDigit(ret.value.text[k])

\* the values of the random word that select index j of a set of n characters
SelectedBy(j, n) == {v \in WordValues : indexOf(v, n) = j}

\* C28 as stated: whatever the size of the character set, each of its
\* indices is selected by the same number of values of the random word.
C28_EveryIndexEquallyOften ==
  (ret.op = "generatePassword" /\ ret.status = "ok") =>
    LET n == Len(charsetOf(ret.arg.options))
    IN \A j \in 1..(n - 1) :
         Cardinality(SelectedBy(j, n)) = Cardinality(SelectedBy(0, n))

\* the subscribers called in the course of these effects, in order
CallsIn(tr) == SelectSeq(tr, LAMBDA e : e.kind = "call")

\* C29 as stated: emit calls, before it returns, every subscriber that is
\* subscribed to the event when emit is called, whether or not one of them
\* throws, and does not fail.
C29_EverySubscriberCalled ==
  [][ ret'.op = "emit" =>
        LET event == ret'.arg.event
            before == _listeners[event]
        IN /\ ret'.status = "ok"
           /\ \A i \in 1..Len(before) : DidIn(trace', Called(before[i], event)) ]_vars

\* C29, amended: emit does not fail and calls, before it returns and in
\* the order of subscription, every subscriber that is subscribed to the
\* event when emit is called, except one that a subscriber called before
\* it has unsubscribed in the meantime; a subscriber that throws does not
\* keep the later ones from being called; the subscribers of other events
\* are neither called nor changed.
C29_SubscribersCalledUnlessRemoved ==
  [][ ret'.op = "emit" =>
        LET event == ret'.arg.event
            before == _listeners[event]
            invoked == CallsIn(trace')
        IN /\ ret'.status = "ok"
           /\ \A k \in 1..Len(invoked) :
                /\ invoked[k].name = event
                /\ positionIn(before, invoked[k].data) # 0
                /\ \A l \in 1..(k - 1) :
                     positionIn(before, invoked[l].data) < positionIn(before, invoked[k].data)
           /\ \A i \in 1..Len(before) :
                \/ DidIn(trace', Called(before[i], event))
                \/ DidIn(trace', Removed(before[i], event))
           /\ \A other \in BusEvents \ {event} : _listeners'[other] = _listeners[other] ]_vars

\* a subscriber threw and the two subscribed after it were called
C29_Witness ==
  /\ ret.op = "emit"
  /\ Len(CallsIn(trace)) = 3
  /\ CallsIn(trace)[1].data.fn = "thrower"
  /\ DidIn(trace, Caught(CallsIn(trace)[1].data, ret.arg.event))
  /\ _listeners["ERROR"] # <<>>

\* C30: at most one timer is pending; secureCopy leaves pending the timer
\* due 30 seconds after it and no older one; the clipboard is cleared by a
\* timer only when that timer is due; lock leaves no timer pending; and no
\* other call sets a timer, so that none fires after a lock before the
\* next secureCopy.
C30_OneTimerResetAndCancelled ==
  [][ /\ Cardinality(timers') <= 1
      /\ (ret'.op = "secureCopy" /\ now' = now) => timers' = {now + CLIP_CLEAR}
      /\ (ret'.op = "clipTimer" /\ now' = now) =>
           /\ timers # {}
           /\ \A due \in timers : now >= due
           /\ timers' = {}
      /\ (ret'.op = "lock" /\ now' = now) => timers' = {}
      /\ ~(ret'.op = "secureCopy" /\ now' = now) => timers' \subseteq timers ]_vars

\* a secureCopy made when the timer of an older one was due has cancelled
\* it and left its own timer, due 30 seconds later
C30_Witness ==
  /\ ret.op = "secureCopy"
  /\ now = StartTime + CLIP_CLEAR
  /\ Did(Effect("clearTimeout", "", NoData))
  /\ timers = {now + CLIP_CLEAR}
  /\ clipboard # <<>>

\* C32: the session starts Locked, without a master password and without
\* entries; and in every state reached by create, unlock, lock, save and
\* remove calls made one after the other, whether they succeed or fail, the
\* session is Locked exactly when no master password is held in memory,
\* and a Locked session holds no entries.
C32_LockedIffNoKey ==
  /\ (_locked = TRUE /\ _masterKey = Undefined /\ _entries = <<>>)
  /\ []((_locked = TRUE) <=> (_masterKey = Undefined))
  /\ []((_locked = TRUE) => (_entries = <<>>))

\* a create call has failed in a session that is Unlocked and holds an
\* entry, after a failure was injected
C32_Witness ==
  /\ ret.op = "create"
  /\ ret.status = "WeakMasterPassword"
  /\ ~_locked
  /\ _masterKey # Undefined
  /\ _entries # <<>>
  /\ faults > 0

\* C36: the session becomes Unlocked in a state where persistence holds
\* neither a verifier nor a main blob only by a create call that succeeds;
\* an unlock call made there leaves the session Locked.
C36_UnlockedOnlyForExistingVault ==
  [][ (~isCreated /\ _locked /\ ~_locked') =>
        (ret'.op = "create" /\ ret'.status = "ok") ]_vars

\* C39: a create call that fails leaves the persisted verifier and blob as
\* they were and the session unchanged, and a vault that was Uninitialized
\* is still Uninitialized.
C39_FailedCreateChangesNothing ==
  [][ (ret'.op = "create" /\ ret'.status # "ok") =>
        /\ localStorage' = localStorage
        /\ session' = session
        /\ (~isCreated /\ _locked) =>
             /\ localStorage'[LS_VERIFIER] = Absent
             /\ localStorage'[LS_VAULT] = Absent
             /\ _locked' ]_vars

\* the entries whose password is older than 90 days, by the later of
\* pwdChangedAt and createdAt
OldByLatest(es, t) ==
  SelectSeq(es, LAMBDA e :
    /\ TruthyText(e.password)
    /\ t - Max(e.pwdChangedAt, e.createdAt) > NINETY_DAYS)

\* C40: as the clock never goes back, every entry in memory, saved in an
\* earlier session or in this one, has createdAt <= pwdChangedAt <= updatedAt,
\* and the old list of an audit is the list of the entries with a password
\* for which now - max(pwdChangedAt, createdAt) exceeds 90 days.
C40_TimestampsOrdered ==
  [][ /\ now' >= now
      /\ \A i \in 1..Len(_entries') :
           /\ _entries'[i].createdAt <= _entries'[i].pwdChangedAt
           /\ _entries'[i].pwdChangedAt <= _entries'[i].updatedAt
      /\ (ret'.op = "audit" /\ ret'.status = "ok" /\ now' = now) =>
           ret'.value.old = OldByLatest(_entries, now) ]_vars

\* an audit lists as old an entry created before its password was last
\* changed and saved again, with the same password, after it
C40_Witness ==
  /\ ret.op = "audit"
  /\ ret.status = "ok"
  /\ ret.value.old # <<>>
  /\ \E i \in 1..Len(ret.value.old) :
       /\ ret.value.old[i].createdAt < ret.value.old[i].pwdChangedAt
       /\ ret.value.old[i].pwdChangedAt < ret.value.old[i].updatedAt

\* the notifications of this name among these effects
Published(tr, event) == \E i \in 1..Len(tr) : tr[i].kind = "emit" /\ tr[i].name = event

\* C38: whenever VAULT_LOCKED is published, by lock() of the vault, by the
\* lock button or Ctrl+L, or by the inactivity timer, the vault session is
\* Locked and holds neither the master password nor entries; whenever
\* VAULT_UNLOCKED is published the vault session is Unlocked.
C38_LockNotificationsMatchSession ==
  [][ /\ (now' = now /\ Published(trace', "VAULT_LOCKED")) =>
           (_locked' /\ _masterKey' = Undefined /\ _entries' = <<>>)
      /\ (now' = now /\ Published(trace', "VAULT_UNLOCKED")) => ~_locked' ]_vars

\* C31: writing to a value the vault returned (the array or an entry of
\* getAll, the entry of getById or of save, the lists of audit) or to
\* the payload of VAULT_ENTRY_SAVED leaves the entries in memory as they
\* were, and with them what getAll returns and what persist writes next.
C31_CallersCannotChangeEntries ==
  [][ ret'.op \in {"modify", "modifyArray"} => _entries' = _entries ]_vars

\* C33: the session goes from Locked to Unlocked only at the end of an
\* unlock or create call that was made after the last lock(): a call made
\* before it, resuming after it, leaves the session Locked.
C33_LockNotUndone ==
  [][ (_locked /\ ~_locked') =>
        \A c \in calls \ calls' : c.n > lockedAt ]_vars

\* C34: when no save or remove call is in flight any more, the persisted
\* blob decrypts under the master password to the entries in memory.
C34_NoLostUpdate ==
  (calls = {} /\ ~_locked) =>
    LET decrypted == decrypt(localStorage[LS_VAULT], _masterKey)
    IN /\ decrypted.ok
       /\ JSON_parse(decrypted.value).ok
       /\ JSON_parse(decrypted.value).value = _entries

\* C35: between a VAULT_LOCKED notification and a later VAULT_ENTRY_SAVED
\* or VAULT_ENTRY_DELETED notification there is a VAULT_UNLOCKED
\* notification.
C35_NoEntryNotificationWhileLocked ==
  \A i \in 1..Len(_history) : \A j \in (i + 1)..Len(_history) :
    (/\ _history[i].event = "VAULT_LOCKED"
     /\ _history[j].event \in {"VAULT_ENTRY_SAVED", "VAULT_ENTRY_DELETED"})
      => \E k \in (i + 1)..(j - 1) : _history[k].event = "VAULT_UNLOCKED"

\* C37: whenever localStorage holds a verifier and a main blob, the
\* passwords the verifier accepts are the passwords the blob decrypts under.
C37_VerifierMatchesBlob ==
  (localStorage[LS_VERIFIER] # Absent /\ localStorage[LS_VAULT] # Absent) =>
    \A p \in {"abcd", "wxyz"} :
      checkVerifier(p, localStorage[LS_VERIFIER])
        <=> decrypt(localStorage[LS_VAULT], p).ok

====
